---- MODULE Spec2Model ----
(***************************************************************************)
(* Control plane of ml-assets-core: the ops flag store kept in a Redis     *)
(* hash (RedisOpsFlagRepository), the ops command service (OpsService),    *)
(* the pub/sub listener (RedisSubscriberImpl) and the inference worker     *)
(* (InferenceWorker.handle_message).                                       *)
(*                                                                         *)
(* Text is modelled by what the conversions do to it:                      *)
(*  - a CSV argument and a command name are sequences of one-character     *)
(*    strings, so split / strip / lower / sort / join are computed;        *)
(*  - a float is [k, u]: k = "num" with u in units of 1e-7, or k = "nan";  *)
(*    its text forms are [k, u] records too ("dec" = decimal literal,      *)
(*    "nan", "bad" = not a float literal), so f"{v:.6f}" really rounds;    *)
(*  - json.dumps of a list / of a dict is a tagged record.                 *)
(***************************************************************************)
EXTENDS Integers, Sequences, FiniteSets, TLC

VARIABLES
    decode_responses,  \* Redis client option: TRUE = replies decoded to str, FALSE = bytes
    store,             \* the Redis hash at keys.ops_flags: field name -> stored text
    clock,             \* datetime.now() as a logical time
    opPc,              \* per operator: position inside OpsService.execute
    opCmd,             \* per operator: the OpsCommand being executed
    opResp,            \* per operator: the OpsResponse built by the handler
    opRet,             \* per operator: what the last finished execute gave its caller
    opPre,             \* per operator: flag store and log sizes when execute was entered
    opSnap,            \* per operator: the default snapshot get_snapshot is about to store
    audit,             \* audit log: sequence of [event, status, message]
    events,            \* ops-event channel: sequence of published envelopes
    notes,             \* notifier: sequence of [title, message]
    nExec,             \* number of execute / repository calls started
    repoRet,           \* the last direct repository call and whether it raised
    haltReturned,      \* a halt_global has returned ok and no resume_global was executed since
    resumes,           \* number of resume_global commands executed
    listener,          \* per worker: its listener thread: "none", "alive" or "dead"
    queue,             \* per worker: messages received by its pub/sub connection, not yet handled
    wPc,               \* per worker: position of the listener thread inside handle_message
    wReq,              \* per worker: the request handle_message is working on
    wHaltAtInvoke,     \* per worker: the stored global_halt when handle_message was invoked
    calls,             \* inference collaborator: calls made, per worker and request id
    signals,           \* signal channel: messages published, per worker and request id
    nReq,              \* number of inference requests published
    wResp,             \* per worker: the InferenceResponse the collaborator returned
    outbox,            \* per worker: the messages it published, channel and payload
    running,           \* per worker: the threading.Event self._running
    mainPc,            \* per worker: position of the thread inside start()
    stopPc,            \* per worker: position of the caller inside stop()
    lateBeats,         \* per worker: heartbeats written after stop() cleared the flag
    blockedBeats,      \* per worker: heartbeats written while handle_message was inside the collaborator
    subscriptions,     \* RedisSubscriberImpl._subscriptions[channel]: the recorded listener, 0 = no entry
    thread,            \* per listener thread: "unborn", "polling", "callback" or "ended"
    pubsub,            \* per listener thread: its PubSub connection: "none", "open" or "closed"
    inbox,             \* per listener thread: messages its connection received, not yet handled
    delivered,         \* per listener thread and message: invocations of the callback
    nPub,              \* number of messages published to the channel
    late,              \* messages published after an unsubscribe returned and before the next subscribe
    quiet,             \* the last subscribe / unsubscribe call finished was an unsubscribe
    callPc,            \* the caller of subscribe / unsubscribe: position inside the call
    callThread         \* the listener the caller holds (just started, or just popped)

(***************************************************************************)
(* Bounds and small input sets                                             *)
(***************************************************************************)
MaxExec == 2
MaxClock == 1
MaxReq == 2
MaxBeats == 2
MaxThreads == 2
MaxMsg == 2

Operators == {"op1", "op2"}
Workers == {"w1", "w2"}
Threads == 1..MaxThreads
None == "None"

(***************************************************************************)
(* Characters and strings as sequences of characters                      *)
(***************************************************************************)
\* code point order of the characters used: " " < "," < "A" < "B"
CharRank(c) == CASE c = " " -> 0 [] c = "," -> 1 [] c = "A" -> 2 [] c = "B" -> 3 [] OTHER -> 4

RECURSIVE LexLess(_, _)
LexLess(a, b) ==
    IF a = <<>> THEN b # <<>>
    ELSE IF b = <<>> THEN FALSE
    ELSE IF Head(a) = Head(b) THEN LexLess(Tail(a), Tail(b))
    ELSE CharRank(Head(a)) < CharRank(Head(b))

\* str.split(","): the parts between the commas, empty parts kept
RECURSIVE SplitFrom(_, _)
SplitFrom(s, cur) ==
    IF s = <<>> THEN <<cur>>
    ELSE IF Head(s) = "," THEN <<cur>> \o SplitFrom(Tail(s), <<>>)
    ELSE SplitFrom(Tail(s), Append(cur, Head(s)))

Split(s) == SplitFrom(s, <<>>)

RECURSIVE LStrip(_)
LStrip(s) == IF s # <<>> /\ Head(s) = " " THEN LStrip(Tail(s)) ELSE s

RECURSIVE RStrip(_)
RStrip(s) == IF s # <<>> /\ s[Len(s)] = " " THEN RStrip(SubSeq(s, 1, Len(s) - 1)) ELSE s

\* str.strip()
Strip(s) == RStrip(LStrip(s))

RECURSIVE FilterNonEmpty(_)
FilterNonEmpty(parts) ==
    IF parts = <<>> THEN <<>>
    ELSE IF Head(parts) # <<>> THEN <<Head(parts)>> \o FilterNonEmpty(Tail(parts))
    ELSE FilterNonEmpty(Tail(parts))

\* [value.strip() for value in csv_values.split(",") if value.strip()]
_split_csv(csv_values) ==
    LET parts == Split(csv_values)
    IN  FilterNonEmpty([i \in 1..Len(parts) |-> Strip(parts[i])])

SeqToSet(s) == {s[i] : i \in 1..Len(s)}

RECURSIVE SortSet(_)
SortSet(S) ==
    IF S = {} THEN <<>>
    ELSE LET m == CHOOSE x \in S : \A y \in S \ {x} : LexLess(x, y)
         IN  <<m>> \o SortSet(S \ {m})

\* sorted(set(pairs))
SortedSet(pairs) == SortSet(SeqToSet(pairs))

\* sep.join(items)
RECURSIVE Join(_, _)
Join(items, sep) ==
    IF items = <<>> THEN <<>>
    ELSE IF Len(items) = 1 THEN items[1]
    ELSE items[1] \o sep \o Join(Tail(items), sep)

(***************************************************************************)
(* Floats and their text                                                   *)
(***************************************************************************)
Num(u) == [k |-> "num", u |-> u]
NaN == [k |-> "nan", u |-> 0]
Dec(u) == [k |-> "dec", u |-> u]      \* the decimal literal of u * 1e-7
NanText == [k |-> "nan", u |-> 0]     \* the text "nan"
BadText == [k |-> "bad", u |-> 0]     \* a text float() rejects, e.g. "abc"

\* value <= 0 ; every comparison with nan is False
FloatLe0(v) == v.k = "num" /\ v.u <= 0
FloatGt0(v) == v.k = "num" /\ v.u > 0

\* float(text) raises ValueError
FloatRaises(text) == text.k = "bad"
\* float(text)
ParseFloat(text) == IF text.k = "nan" THEN NaN ELSE Num(text.u)

\* round half to even of u / 10
RoundTenth(u) ==
    LET q == u \div 10
        r == u % 10
    IN  IF r < 5 THEN q
        ELSE IF r > 5 THEN q + 1
        ELSE IF q % 2 = 0 THEN q ELSE q + 1

\* f"{value:.6f}": six decimals, so the text is a multiple of 1e-6
Format6f(v) == IF v.k = "nan" THEN NanText ELSE Dec(10 * RoundTenth(v.u))

(***************************************************************************)
(* JSON text and the Redis hash                                            *)
(***************************************************************************)
JsonArray(items) == [json |-> "array", val |-> items]     \* json.dumps(list)
JsonObject(map) == [json |-> "object", val |-> map]       \* json.dumps(dict)

EmptyMap == [x \in {} |-> None]

\* hset that merges the new metadata object into the stored one
HSet_MetadataMerged(st, m) ==
    IF "metadata" \in DOMAIN st /\ "metadata" \in DOMAIN m
          /\ st["metadata"].json = "object" /\ m["metadata"].json = "object"
    THEN [metadata |-> [json |-> "object", val |-> m["metadata"].val @@ st["metadata"].val]]
         @@ m @@ st
    ELSE m @@ st

\* client.hset(key, mapping=m): the named fields are overwritten, the others kept
HSet(st, m) == m @@ st

\* str(b"text") == "b'text'"
BytesRepr(k) == "b'" \o k \o "'"

\* data = {str(k): str(v) for k, v in client.hgetall(key).items()}
\* a client without decode_responses answers with bytes keys and bytes values
HGetAllData(st, decode) ==
    IF decode THEN st
    ELSE [k2 \in {BytesRepr(k) : k \in DOMAIN st} |->
            [bytes_repr |-> st[CHOOSE k \in DOMAIN st : BytesRepr(k) = k2]]]

\* data.get(key, default)
DataGet(data, key, default) == IF key \in DOMAIN data THEN data[key] ELSE default

\* str(value).lower() in ("1", "true", "yes", "on") ; the texts met here are lower case
_bool(value) == value \in {"1", "true", "yes", "on"}

\* json.dumps(str), the value kept as its characters ; a text json.loads rejects
JsonString(chars) == [json |-> "string", val |-> chars]
NotJson(val) == [json |-> "invalid", val |-> val]

\* json.loads(text) ; not a Sequence -> [] ; [str(item) for item in loaded]
\* (a JSON string is a Sequence too: its items are its characters)
_loads_sequence(text) ==
    CASE text.json = "array" -> text.val
      [] text.json = "string" -> [i \in 1..Len(text.val) |-> <<text.val[i]>>]
      [] OTHER -> <<>>

_loads_mapping(text) == IF text.json = "object" THEN text.val ELSE EmptyMap

Iso(t) == [iso |-> t]

_default_metadata(reason, now) ==
    [updated_at |-> Iso(now), reason |-> reason, source |-> "ml-assets-core"]

\* metadata = dict(_default_metadata(reason)); metadata.update(extra)
_metadata_json(reason, extra, now) == JsonObject(extra @@ _default_metadata(reason, now))

(***************************************************************************)
(* RedisOpsFlagRepository                                                  *)
(***************************************************************************)
One == Num(10000000)

OpsFlagSnapshot(gh, hp, fp, lev, md) ==
    [global_halt |-> gh, halted_pairs |-> hp, flatten_pairs |-> fp,
     leverage_scale |-> lev, metadata |-> md]

\* OpsFlagSnapshot.__post_init__ raises ValueError
PostInitRaises(lev) == FloatLe0(lev)

NoSnapshot == OpsFlagSnapshot(FALSE, <<>>, <<>>, One, EmptyMap)

\* get_snapshot up to its return or its call of _store_snapshot:
\* kind "ok" (snapshot returned), "init" (empty hash: defaults built, still to be
\* stored) or "raise" (ValueError from float() or from __post_init__)
get_snapshot(st, decode, now) ==
    LET data == HGetAllData(st, decode)
        lev_text == DataGet(data, "leverage_scale", Dec(10000000))
    IN  IF DOMAIN data = {}
        THEN [kind |-> "init",
              snapshot |-> OpsFlagSnapshot(FALSE, <<>>, <<>>, One,
                                           _default_metadata("initialized", now))]
        ELSE IF FloatRaises(lev_text) \/ PostInitRaises(ParseFloat(lev_text))
        THEN [kind |-> "raise", snapshot |-> NoSnapshot]
        ELSE [kind |-> "ok",
              snapshot |-> OpsFlagSnapshot(
                  _bool(DataGet(data, "global_halt", "false")),
                  _loads_sequence(DataGet(data, "halted_pairs", JsonArray(<<>>))),
                  _loads_sequence(DataGet(data, "flatten_pairs", JsonArray(<<>>))),
                  ParseFloat(lev_text),
                  _loads_mapping(DataGet(data, "metadata", JsonObject(EmptyMap))))]

\* the mapping _store_snapshot writes
_store_snapshot(snapshot, reason, now) ==
    [global_halt |-> IF snapshot.global_halt THEN "1" ELSE "0",
     halted_pairs |-> JsonArray(snapshot.halted_pairs),
     flatten_pairs |-> JsonArray(snapshot.flatten_pairs),
     leverage_scale |-> Format6f(snapshot.leverage_scale),
     metadata |-> _metadata_json(reason, snapshot.metadata, now)]

\* the mappings the set_* methods write
set_global_halt(value, reason, now) ==
    [global_halt |-> IF value THEN "1" ELSE "0",
     metadata |-> _metadata_json(reason,
                     [global_halt |-> IF value THEN "True" ELSE "False"], now)]

\* the whole record is rewritten from a fresh snapshot that holds the new pairs
set_halted_pairs_WholeRecord(pairs, reason, now) ==
    [global_halt |-> "0",
     halted_pairs |-> JsonArray(SortedSet(pairs)),
     flatten_pairs |-> JsonArray(<<>>),
     leverage_scale |-> Format6f(One),
     metadata |-> _metadata_json(reason,
                     [halted_pairs |-> Join(SortedSet(pairs), <<",">>)], now)]

set_halted_pairs(pairs, reason, now) ==
    [halted_pairs |-> JsonArray(SortedSet(pairs)),
     metadata |-> _metadata_json(reason,
                     [halted_pairs |-> Join(SortedSet(pairs), <<",">>)], now)]

set_flatten_pairs(pairs, reason, now) ==
    [flatten_pairs |-> JsonArray(SortedSet(pairs)),
     metadata |-> _metadata_json(reason,
                     [flatten_pairs |-> Join(SortedSet(pairs), <<",">>)], now)]

\* set_leverage_scale raises ValueError instead of writing
SetLeverageRaises(value) == FloatLe0(value)

set_leverage_scale(value, reason, now) ==
    [leverage_scale |-> Format6f(value),
     metadata |-> _metadata_json(reason, [leverage_scale |-> Format6f(value)], now)]

(***************************************************************************)
(* OpsCommand inputs                                                       *)
(***************************************************************************)
status == <<"s","t","a","t","u","s">>
halt_global == <<"h","a","l","t","_","g","l","o","b","a","l">>
resume_global == <<"r","e","s","u","m","e","_","g","l","o","b","a","l">>
halt_pairs == <<"h","a","l","t","_","p","a","i","r","s">>
flatten_pairs == <<"f","l","a","t","t","e","n","_","p","a","i","r","s">>
set_leverage == <<"s","e","t","_","l","e","v","e","r","a","g","e">>

\* the _handle_<name> methods of OpsService
HandlerNames == {status, halt_global, resume_global, halt_pairs, flatten_pairs, set_leverage}

UpperToLower ==
    [c \in {"A","B","C","D","E","F","G","H","I","J","K","L","M","N","O","P","Q","R","S",
            "T","U","V","W","X","Y","Z"} |->
        CASE c = "A" -> "a" [] c = "B" -> "b" [] c = "C" -> "c" [] c = "D" -> "d"
          [] c = "E" -> "e" [] c = "F" -> "f" [] c = "G" -> "g" [] c = "H" -> "h"
          [] c = "I" -> "i" [] c = "J" -> "j" [] c = "K" -> "k" [] c = "L" -> "l"
          [] c = "M" -> "m" [] c = "N" -> "n" [] c = "O" -> "o" [] c = "P" -> "p"
          [] c = "Q" -> "q" [] c = "R" -> "r" [] c = "S" -> "s" [] c = "T" -> "t"
          [] c = "U" -> "u" [] c = "V" -> "v" [] c = "W" -> "w" [] c = "X" -> "x"
          [] c = "Y" -> "y" [] c = "Z" -> "z"]

\* the command name used as it was given, its letter case kept
Lower_CaseKept(s) == s

\* str.lower()
Lower(s) == [i \in 1..Len(s) |-> IF s[i] \in DOMAIN UpperToLower THEN UpperToLower[s[i]] ELSE s[i]]

\* getattr(self, f"_handle_{handler_name}", None) finds a method
HasHandler(handler_name) == handler_name \in HandlerNames

OpsCommand(command, arguments, metadata) ==
    [command |-> command, arguments |-> arguments, metadata |-> metadata]

\* letter-case variants of recognized names, and names with no handler
Halt_Global == <<"H","a","l","t","_","G","l","o","b","a","l">>
STATUS == <<"S","T","A","T","U","S">>
SET_LEVERAGE == <<"S","E","T","_","L","E","V","E","R","A","G","E">>
bogus == <<"b","o","g","u","s">>
halt == <<"h","a","l","t">>

Actor == [actor |-> "alice"]

\* arguments["pairs"]: "", " , ", "A", " B,A ", "A,A" ; " ", "B, A"
HaltPairsTexts == { <<>>, <<" ", ",", " ">>, <<"A">>, <<" ", "B", ",", "A", " ">>,
                    <<"A", ",", "A">> }
FlattenPairsTexts == { <<" ">>, <<"B", ",", " ", "A">> }

\* arguments["leverage"]: "abc", "nan", "-1", "0", "0.0000001", "0.0000006", "0.8"
LeverageTexts ==
    { BadText, NanText, Dec(-10000000), Dec(0), Dec(1), Dec(6), Dec(8000000) }

\* commands whose arguments or metadata carry a key named status or message
ForgedCommands ==
    { OpsCommand(halt_pairs, EmptyMap, [status |-> "ok"]),
      OpsCommand(halt_global, [message |-> [text |-> "forged", arg |-> <<>>, num |-> Num(0)]],
                 EmptyMap) }

Commands ==
    { OpsCommand(status, EmptyMap, EmptyMap),
      OpsCommand(STATUS, EmptyMap, EmptyMap),
      OpsCommand(halt_global, EmptyMap, EmptyMap),
      OpsCommand(halt_global, EmptyMap, Actor),
      OpsCommand(Halt_Global, EmptyMap, EmptyMap),
      OpsCommand(resume_global, EmptyMap, EmptyMap),
      OpsCommand(bogus, EmptyMap, EmptyMap),
      OpsCommand(bogus, [pairs |-> <<"A">>], Actor),
      OpsCommand(halt, EmptyMap, EmptyMap),
      OpsCommand(<<>>, [leverage |-> Dec(8000000)], EmptyMap),
      OpsCommand(halt_pairs, EmptyMap, EmptyMap),
      OpsCommand(flatten_pairs, EmptyMap, EmptyMap),
      OpsCommand(set_leverage, EmptyMap, EmptyMap),
      OpsCommand(halt_pairs, [pairs |-> <<"B">>], Actor) }
    \cup {OpsCommand(halt_pairs, [pairs |-> p], EmptyMap) : p \in HaltPairsTexts}
    \cup {OpsCommand(flatten_pairs, [pairs |-> p], EmptyMap) : p \in FlattenPairsTexts}
    \cup {OpsCommand(set_leverage, [leverage |-> l], EmptyMap) : l \in LeverageTexts}
    \cup {OpsCommand(SET_LEVERAGE, [leverage |-> Dec(20000000)], EmptyMap)}
    \cup ForgedCommands

(***************************************************************************)
(* OpsService                                                              *)
(***************************************************************************)
Message(text, arg, num) == [text |-> text, arg |-> arg, num |-> num]

OpsResponse(st, message, details) == [status |-> st, message |-> message, details |-> details]

NoResponse == OpsResponse("none", Message("", <<>>, Num(0)), EmptyMap)

\* mapping.get(key, default)
MapGet(m, key, default) == IF key \in DOMAIN m THEN m[key] ELSE default

MetaKey(k) == "meta_" \o k

_snapshot_to_details(snapshot) ==
    [k \in {MetaKey(j) : j \in DOMAIN snapshot.metadata} |->
        snapshot.metadata[CHOOSE j \in DOMAIN snapshot.metadata : MetaKey(j) = k]]
    @@ [global_halt |-> IF snapshot.global_halt THEN "true" ELSE "false",
        halted_pairs |-> Join(snapshot.halted_pairs, <<",">>),
        flatten_pairs |-> Join(snapshot.flatten_pairs, <<",">>),
        leverage_scale |-> Format6f(snapshot.leverage_scale)]

\* The handler of a recognized command, up to its first repository call or its
\* early return: [kind, mapping, reason, response, ok_message]
\*   kind "error": validation failed, response returned without a repository call
\*   kind "read" : _handle_status, get_snapshot comes next
\*   kind "write": hset of mapping, get_snapshot comes next
HandlerPlan(kind, mapping, response, ok_message) ==
    [kind |-> kind, mapping |-> mapping, response |-> response, ok_message |-> ok_message]

ErrorPlan(text) ==
    HandlerPlan("error", EmptyMap, OpsResponse("error", Message(text, <<>>, Num(0)), EmptyMap),
                Message("", <<>>, Num(0)))

_handle_status(command, now) ==
    HandlerPlan("read", EmptyMap, NoResponse, Message("Ops status snapshot", <<>>, Num(0)))

_handle_halt_global(command, now) ==
    HandlerPlan("write",
                set_global_halt(TRUE, MapGet(command.metadata, "actor", "manual_halt"), now),
                NoResponse, Message("Global trading halt activated.", <<>>, Num(0)))

_handle_resume_global(command, now) ==
    HandlerPlan("write",
                set_global_halt(FALSE, MapGet(command.metadata, "actor", "manual_resume"), now),
                NoResponse, Message("Global trading halt disabled.", <<>>, Num(0)))

\* halt_pairs without the `if not pairs` check: an empty list is written too
_handle_halt_pairs_EmptyAccepted(command, now) ==
    LET pairs == _split_csv(MapGet(command.arguments, "pairs", <<>>))
    IN  HandlerPlan("write",
            set_halted_pairs(pairs, MapGet(command.metadata, "actor", "manual_halt_pairs"), now),
            NoResponse,
            Message("Halted pairs updated: ", Join(pairs, <<",", " ">>), Num(0)))

_handle_halt_pairs(command, now) ==
    LET pairs == _split_csv(MapGet(command.arguments, "pairs", <<>>))
    IN  IF pairs = <<>> THEN ErrorPlan("pairs argument required")
        ELSE HandlerPlan("write",
                 set_halted_pairs(pairs, MapGet(command.metadata, "actor", "manual_halt_pairs"), now),
                 NoResponse,
                 Message("Halted pairs updated: ", Join(pairs, <<",", " ">>), Num(0)))

_handle_flatten_pairs(command, now) ==
    LET pairs == _split_csv(MapGet(command.arguments, "pairs", <<>>))
    IN  IF pairs = <<>> THEN ErrorPlan("pairs argument required")
        ELSE HandlerPlan("write",
                 set_flatten_pairs(pairs, MapGet(command.metadata, "actor", "manual_flatten"), now),
                 NoResponse,
                 Message("Flatten pairs updated: ", Join(pairs, <<",", " ">>), Num(0)))

_handle_set_leverage(command, now) ==
    IF "leverage" \notin DOMAIN command.arguments
    THEN ErrorPlan("leverage argument required")
    ELSE LET leverage_str == command.arguments["leverage"]
         IN  IF FloatRaises(leverage_str) THEN ErrorPlan("leverage argument invalid")
             ELSE LET leverage_value == ParseFloat(leverage_str)
                  IN  IF FloatLe0(leverage_value)
                      THEN ErrorPlan("leverage must be positive")
                      ELSE HandlerPlan("write",
                               set_leverage_scale(leverage_value,
                                   MapGet(command.metadata, "actor", "manual_leverage"), now),
                               NoResponse,
                               Message("Leverage scale set to ", <<>>, leverage_value))

\* handler = getattr(self, f"_handle_{handler_name}") ; handler(command)
Handler(handler_name, command, now) ==
    CASE handler_name = status -> _handle_status(command, now)
      [] handler_name = halt_global -> _handle_halt_global(command, now)
      [] handler_name = resume_global -> _handle_resume_global(command, now)
      [] handler_name = halt_pairs -> _handle_halt_pairs(command, now)
      [] handler_name = flatten_pairs -> _handle_flatten_pairs(command, now)
      [] handler_name = set_leverage -> _handle_set_leverage(command, now)

OpsPrefix == <<"o","p","s",".">>

\* the audit entry of execute: event_name and payload
\* payload = {"status": .., "message": .., **command.metadata, **command.arguments}
AuditEntry(command, response) ==
    [event |-> OpsPrefix \o Lower(command.command),
     payload |-> command.arguments @@ command.metadata
                 @@ [status |-> response.status, message |-> response.message]]

\* the envelope published to the ops-event channel
EventEnvelope(command, response) ==
    [command |-> command.command, arguments |-> command.arguments,
     metadata |-> command.metadata, status |-> response.status,
     details |-> response.details]

\* the notification sent by execute
Notification(command, response) ==
    [message |-> response.message, title |-> OpsPrefix \o Lower(command.command)]

NoCommand == OpsCommand(<<>>, EmptyMap, EmptyMap)
Returned(seq, command, outcome, response) ==
    [seq |-> seq, command |-> command, outcome |-> outcome, response |-> response]

opVars == <<opPc, opCmd, opResp, opRet, opPre, opSnap>>
logVars == <<audit, events, notes>>
haltVars == <<haltReturned, resumes>>
msgVars == <<wResp, outbox>>
lifeVars == <<running, mainPc, stopPc, lateBeats, blockedBeats>>
subVars == <<subscriptions, thread, pubsub, inbox, delivered, nPub, late, quiet, callPc,
             callThread>>
workerVars == <<listener, queue, wPc, wReq, wHaltAtInvoke, calls, signals, nReq, msgVars,
                lifeVars, subVars>>
vars == <<decode_responses, store, clock, opVars, logVars, nExec, repoRet, haltVars, workerVars>>

\* OpsService is built with a publisher, an ops-event channel and a notifier
\* (build_ops_usecase, make_service)
HasEventPublisher == TRUE
HasNotifier == TRUE

\* the ops event is published whatever the status of the response
PublishesEvent_AnyStatus(response) == HasEventPublisher

\* if self._event_publisher and self._ops_event_channel and response.status == "ok"
PublishesEvent(response) == HasEventPublisher /\ response.status = "ok"

\* if self._notifier and response.status == "ok"
Notifies(response) == HasNotifier /\ response.status = "ok"

PreState == [store |-> store, audit |-> Len(audit), events |-> Len(events), notes |-> Len(notes)]

\* execute returns `response` to its caller
Return(o, response) ==
    /\ opRet' = [opRet EXCEPT ![o] = Returned(opPre[o].seq, opCmd[o], "returned", response)]
    /\ opPc' = [opPc EXCEPT ![o] = "idle"]
    /\ haltReturned' = IF Lower(opCmd[o].command) = halt_global /\ response.status = "ok"
                       THEN TRUE ELSE haltReturned

\* execute is left by an exception
Raise(o) ==
    /\ opRet' = [opRet EXCEPT ![o] = Returned(opPre[o].seq, opCmd[o], "raised", NoResponse)]
    /\ opPc' = [opPc EXCEPT ![o] = "idle"]

(***************************************************************************)
(* OpsService.execute, one step per call of Redis, audit logger, publisher *)
(* and notifier                                                            *)
(***************************************************************************)
\* execute is entered: dispatch, then the handler up to its first repository call
ExecBegin(o, command) ==
    /\ opPc[o] = "idle"
    /\ nExec < MaxExec
    /\ nExec' = nExec + 1
    /\ LET handler_name == Lower(command.command)
           pre == [seq |-> nExec + 1] @@ PreState
       IN  IF ~HasHandler(handler_name)
           THEN /\ opRet' = [opRet EXCEPT ![o] =
                       Returned(nExec + 1, command, "returned",
                           OpsResponse("error",
                               Message("Unsupported command", command.command, Num(0)),
                               EmptyMap))]
                /\ UNCHANGED <<store, opPc, opCmd, opResp, opPre, opSnap, haltVars>>
           ELSE LET plan == Handler(handler_name, command, clock)
                IN  /\ opCmd' = [opCmd EXCEPT ![o] = command]
                    /\ opPre' = [opPre EXCEPT ![o] = pre]
                    /\ opResp' = [opResp EXCEPT ![o] =
                           IF plan.kind = "error" THEN plan.response
                           ELSE OpsResponse("none", plan.ok_message, EmptyMap)]
                    /\ opPc' = [opPc EXCEPT ![o] = IF plan.kind = "error" THEN "audit" ELSE "read"]
                    /\ store' = IF plan.kind = "write" THEN HSet(store, plan.mapping) ELSE store
                    /\ resumes' = IF handler_name = resume_global THEN resumes + 1 ELSE resumes
                    /\ haltReturned' = IF handler_name = resume_global THEN FALSE ELSE haltReturned
                    /\ UNCHANGED <<opRet, opSnap>>
    /\ UNCHANGED <<decode_responses, clock, logVars, repoRet, workerVars>>

\* the handler's get_snapshot: hgetall and deserialization
ExecRead(o) ==
    /\ opPc[o] = "read"
    /\ LET got == get_snapshot(store, decode_responses, clock)
       IN  CASE got.kind = "init" ->
                  /\ opSnap' = [opSnap EXCEPT ![o] = got.snapshot]
                  /\ opPc' = [opPc EXCEPT ![o] = "init"]
                  /\ UNCHANGED <<opResp, opRet, haltReturned>>
             [] got.kind = "raise" ->
                  /\ Raise(o)
                  /\ UNCHANGED <<opResp, opSnap, haltReturned>>
             [] got.kind = "ok" ->
                  /\ opResp' = [opResp EXCEPT ![o] =
                         OpsResponse("ok", opResp[o].message, _snapshot_to_details(got.snapshot))]
                  /\ opPc' = [opPc EXCEPT ![o] = "audit"]
                  /\ UNCHANGED <<opRet, opSnap, haltReturned>>
    /\ UNCHANGED <<decode_responses, store, clock, opCmd, opPre, logVars, nExec, repoRet,
                   resumes, workerVars>>

\* the handler's get_snapshot found the hash empty: _store_snapshot writes the defaults
ExecInit(o) ==
    /\ opPc[o] = "init"
    /\ store' = HSet(store, _store_snapshot(opSnap[o], "initialize", clock))
    /\ opResp' = [opResp EXCEPT ![o] =
           OpsResponse("ok", opResp[o].message, _snapshot_to_details(opSnap[o]))]
    /\ opPc' = [opPc EXCEPT ![o] = "audit"]
    /\ UNCHANGED <<decode_responses, clock, opCmd, opRet, opPre, opSnap, logVars, nExec,
                   repoRet, haltVars, workerVars>>

\* self._audit_logger.log(...)
ExecAudit(o) ==
    /\ opPc[o] = "audit"
    /\ audit' = Append(audit, AuditEntry(opCmd[o], opResp[o]))
    /\ IF PublishesEvent(opResp[o])
       THEN /\ opPc' = [opPc EXCEPT ![o] = "publish"]
            /\ UNCHANGED <<opRet, haltReturned>>
       ELSE IF Notifies(opResp[o])
       THEN /\ opPc' = [opPc EXCEPT ![o] = "notify"]
            /\ UNCHANGED <<opRet, haltReturned>>
       ELSE Return(o, opResp[o])
    /\ UNCHANGED <<decode_responses, store, clock, opCmd, opResp, opPre, opSnap, events, notes,
                   nExec, repoRet, resumes, workerVars>>

\* self._event_publisher.publish(self._ops_event_channel, json.dumps(event_payload))
ExecPublish(o) ==
    /\ opPc[o] = "publish"
    /\ events' = Append(events, EventEnvelope(opCmd[o], opResp[o]))
    /\ IF Notifies(opResp[o])
       THEN /\ opPc' = [opPc EXCEPT ![o] = "notify"]
            /\ UNCHANGED <<opRet, haltReturned>>
       ELSE Return(o, opResp[o])
    /\ UNCHANGED <<decode_responses, store, clock, opCmd, opResp, opPre, opSnap, audit, notes,
                   nExec, repoRet, resumes, workerVars>>

\* self._notifier.notify(...) ; return response
ExecNotify(o) ==
    /\ opPc[o] = "notify"
    /\ notes' = Append(notes, Notification(opCmd[o], opResp[o]))
    /\ Return(o, opResp[o])
    /\ UNCHANGED <<decode_responses, store, clock, opCmd, opResp, opPre, opSnap, audit, events,
                   nExec, repoRet, resumes, workerVars>>

\* the publisher's exception is swallowed and execute goes on to the notifier
ExecPublishRaises_Swallowed(o) ==
    /\ opPc[o] = "publish"
    /\ opPc' = [opPc EXCEPT ![o] = "notify"]
    /\ UNCHANGED <<decode_responses, store, clock, opCmd, opResp, opRet, opPre, opSnap, logVars,
                   nExec, repoRet, haltVars, workerVars>>

\* self._event_publisher.publish(...) raises: nothing catches it in execute
ExecPublishRaises(o) ==
    /\ opPc[o] = "publish"
    /\ Raise(o)
    /\ UNCHANGED <<decode_responses, store, clock, opCmd, opResp, opPre, opSnap, logVars,
                   nExec, repoRet, haltVars, workerVars>>

\* self._notifier.notify(...) raises: nothing catches it in execute
ExecNotifyRaises(o) ==
    /\ opPc[o] = "notify"
    /\ Raise(o)
    /\ UNCHANGED <<decode_responses, store, clock, opCmd, opResp, opPre, opSnap, logVars,
                   nExec, repoRet, haltVars, workerVars>>

\* datetime.now(timezone.utc) moves on
Tick ==
    /\ clock < MaxClock
    /\ clock' = clock + 1
    /\ UNCHANGED <<decode_responses, store, opVars, logVars, nExec, repoRet, haltVars,
                   workerVars>>

(***************************************************************************)
(* Direct calls of the repository's set_* methods                          *)
(***************************************************************************)
RepoCall(method, flag, pairs, value, reason) ==
    [method |-> method, flag |-> flag, pairs |-> pairs, value |-> value, reason |-> reason]

LeverageValues == {Num(-10000000), Num(0), Num(1), Num(8000000), NaN}
PairLists == {<<>>, <<<<"B">>, <<"A">>>>, <<<<"A">>, <<"A">>>>}

RepoCalls ==
    {RepoCall("set_global_halt", v, <<>>, One, "unit-test") : v \in BOOLEAN}
    \cup {RepoCall("set_halted_pairs", FALSE, p, One, "halt") : p \in PairLists}
    \cup {RepoCall("set_flatten_pairs", FALSE, <<<<"A">>>>, One, "flatten")}
    \cup {RepoCall("set_leverage_scale", FALSE, <<>>, v, "risk") : v \in LeverageValues}

RepoMapping(call, now) ==
    CASE call.method = "set_global_halt" -> set_global_halt(call.flag, call.reason, now)
      [] call.method = "set_halted_pairs" -> set_halted_pairs(call.pairs, call.reason, now)
      [] call.method = "set_flatten_pairs" -> set_flatten_pairs(call.pairs, call.reason, now)
      [] call.method = "set_leverage_scale" -> set_leverage_scale(call.value, call.reason, now)

RepoRaises(call) == call.method = "set_leverage_scale" /\ SetLeverageRaises(call.value)

\* repository.set_*(value, reason=reason), called on the repository itself
RepoSet(call) ==
    /\ nExec < MaxExec
    /\ \A o \in Operators : opPc[o] = "idle"
    /\ nExec' = nExec + 1
    /\ store' = IF RepoRaises(call) THEN store ELSE HSet(store, RepoMapping(call, clock))
    /\ repoRet' = [seq |-> nExec + 1, call |-> call, pre |-> store,
                   outcome |-> IF RepoRaises(call) THEN "raised" ELSE "ok"]
    /\ UNCHANGED <<decode_responses, clock, opVars, logVars, haltVars, workerVars>>

(***************************************************************************)
(* Request channel, listener thread and InferenceWorker.handle_message     *)
(***************************************************************************)
\* A payload on the wire, by what json.loads makes of it:
\*   json          "object", "array" (JSON, but no object) or "invalid" (no JSON)
\*   partition_ids [t, n]: t = "absent", "list", "str" or "num"; n = number of items
\*   theta_params  [t, keys, theta1, theta2, updated_at_ok, updated_by]
\*   metadata      [t, n]: t = "absent", "object", "list" or "str"; n = number of items
WirePartitions(t, n) == [t |-> t, n |-> n]
WireMetadata(t, n) == [t |-> t, n |-> n]
ThetaKeys == {"theta1", "theta2", "updated_at", "updated_by"}
WireTheta(t, keys, theta1, theta2, updated_at_ok, updated_by) ==
    [t |-> t, keys |-> keys, theta1 |-> theta1, theta2 |-> theta2,
     updated_at_ok |-> updated_at_ok, updated_by |-> updated_by]
WirePayload(json, partition_ids, theta_params, metadata) ==
    [json |-> json, partition_ids |-> partition_ids, theta_params |-> theta_params,
     metadata |-> metadata]

Half == Dec(5000000)
GoodTheta == WireTheta("object", ThetaKeys, Half, Half, TRUE, "trainer")
GoodPartitions == WirePartitions("list", 2)
GoodMetadata == WireMetadata("object", 1)

\* the payloads published to the request channel, by name
ShapeBody(shape) ==
    CASE shape = "valid" -> WirePayload("object", GoodPartitions, GoodTheta, GoodMetadata)
      [] shape = "no_metadata" ->
            WirePayload("object", GoodPartitions, GoodTheta, WireMetadata("absent", 0))
      [] shape = "not_json" -> WirePayload("invalid", GoodPartitions, GoodTheta, GoodMetadata)
      [] shape = "json_array" -> WirePayload("array", GoodPartitions, GoodTheta, GoodMetadata)
      [] shape = "no_partitions" ->
            WirePayload("object", WirePartitions("absent", 0), GoodTheta, GoodMetadata)
      [] shape = "partitions_number" ->
            WirePayload("object", WirePartitions("num", 0), GoodTheta, GoodMetadata)
      [] shape = "partitions_string" ->
            WirePayload("object", WirePartitions("str", 6), GoodTheta, GoodMetadata)
      [] shape = "partitions_empty" ->
            WirePayload("object", WirePartitions("list", 0), GoodTheta, GoodMetadata)
      [] shape = "no_theta" ->
            WirePayload("object", GoodPartitions,
                        WireTheta("absent", {}, Half, Half, TRUE, "trainer"), GoodMetadata)
      [] shape = "theta_no_updated_by" ->
            WirePayload("object", GoodPartitions,
                        WireTheta("object", ThetaKeys \ {"updated_by"}, Half, Half, TRUE, "trainer"),
                        GoodMetadata)
      [] shape = "theta1_above_one" ->
            WirePayload("object", GoodPartitions,
                        WireTheta("object", ThetaKeys, Dec(15000000), Half, TRUE, "trainer"),
                        GoodMetadata)
      [] shape = "theta2_nan" ->
            WirePayload("object", GoodPartitions,
                        WireTheta("object", ThetaKeys, Half, NanText, TRUE, "trainer"),
                        GoodMetadata)
      [] shape = "theta1_text" ->
            WirePayload("object", GoodPartitions,
                        WireTheta("object", ThetaKeys, BadText, Half, TRUE, "trainer"),
                        GoodMetadata)
      [] shape = "updated_at_bad" ->
            WirePayload("object", GoodPartitions,
                        WireTheta("object", ThetaKeys, Half, Half, FALSE, "trainer"),
                        GoodMetadata)
      [] shape = "updated_by_empty" ->
            WirePayload("object", GoodPartitions,
                        WireTheta("object", ThetaKeys, Half, Half, TRUE, ""), GoodMetadata)
      [] shape = "metadata_list" ->
            WirePayload("object", GoodPartitions, GoodTheta, WireMetadata("list", 1))
      [] shape = "metadata_empty_list" ->
            WirePayload("object", GoodPartitions, GoodTheta, WireMetadata("list", 0))

\* payloads published to the request channel while operators are at work
PayloadShapes == {"valid", "not_json"}

\* every payload shape
WireShapes ==
    {"valid", "no_metadata", "not_json", "json_array", "no_partitions", "partitions_number",
     "partitions_string", "partitions_empty", "no_theta", "theta_no_updated_by",
     "theta1_above_one", "theta2_nan", "theta1_text", "updated_at_bad", "updated_by_empty",
     "metadata_list", "metadata_empty_list"}

\* _validate_probability raises: not 0.0 <= value <= 1.0
_validate_probability(value) == ~(value.k = "num" /\ 0 <= value.u /\ value.u <= 10000000)

\* ThetaParams.__post_init__ raises ValueError
ThetaPostInitRaises(theta1, theta2, updated_by) ==
    \/ _validate_probability(theta1)
    \/ _validate_probability(theta2)
    \/ updated_by = ""

\* _deserialize_theta_params raises ValueError: a missing key, a text that
\* fromisoformat or float rejects, or ThetaParams.__post_init__
_deserialize_theta_params(data) ==
    \/ ~(ThetaKeys \subseteq data.keys)
    \/ ~data.updated_at_ok
    \/ FloatRaises(data.theta1)
    \/ FloatRaises(data.theta2)
    \/ ThetaPostInitRaises(ParseFloat(data.theta1), ParseFloat(data.theta2), data.updated_by)

\* isinstance(value, Sequence) for a decoded JSON value: a list, and a str as well
IsSequence(value) == value.t \in {"list", "str"}

\* raw.get("metadata") or {} ; an empty value of any type is replaced by {}
MetadataOrEmpty(value) ==
    IF value.t = "absent" \/ value.n = 0 THEN WireMetadata("object", 0) ELSE value

\* InferenceRequest built by _decode_inference_request
InferenceRequest(partition_ids, theta_params, metadata) ==
    [partition_ids |-> partition_ids, theta1 |-> ParseFloat(theta_params.theta1),
     theta2 |-> ParseFloat(theta_params.theta2), updated_by |-> theta_params.updated_by,
     metadata |-> metadata.n]

\* _decode_inference_request: [raises, request]
_decode_inference_request(payload) ==
    LET metadata == MetadataOrEmpty(payload.metadata)
        raises == \/ payload.json # "object"
                  \/ ~IsSequence(payload.partition_ids)
                  \/ payload.theta_params.t # "object"
                  \/ metadata.t # "object"
                  \/ _deserialize_theta_params(payload.theta_params)
    IN  [raises |-> raises,
         request |-> InferenceRequest(payload.partition_ids, payload.theta_params, metadata)]

\* _decode_inference_request raises ValueError
DecodeRaises(payload) == _decode_inference_request(ShapeBody(payload.shape)).raises

NoRequest == [id |-> 0, shape |-> "none", afterHalt |-> FALSE, resumes |-> 0]

\* the stored text of global_halt is a true one
StoredHalt == "global_halt" \in DOMAIN store /\ _bool(store["global_halt"])

\* RedisMessagingConfig.inference_signal_channel
inference_signal_channel == "inference_signal_channel"

\* InferenceResponse of the collaborator: its signals and its diagnostics
InferenceResponse(sigs, diagnostics) == [signals |-> sigs, diagnostics |-> diagnostics]
NoInference == InferenceResponse(<<>>, EmptyMap)

\* diagnostics a collaborator may return: its own keys, or keys named as the worker's
PlainDiagnostics == [model_version |-> "m1"]
ClashingDiagnostics == [worker_id |-> "collaborator", inference_duration_ms |-> "collaborator"]
DiagnosticsInputs == {PlainDiagnostics, ClashingDiagnostics}

\* the collaborator's entries win over the worker's own
Diagnostics_CollaboratorWins(w, response) ==
    response.diagnostics @@ [inference_duration_ms |-> "measured", worker_id |-> w]

\* diagnostics = dict(response.diagnostics); diagnostics.update({duration, worker_id})
Diagnostics(w, response) ==
    [inference_duration_ms |-> "measured", worker_id |-> w] @@ response.diagnostics

\* the message handle_message publishes: channel and payload_dict
SignalMessage(w, request, response) ==
    [channel |-> inference_signal_channel,
     signals |-> response.signals,
     metadata |-> _decode_inference_request(ShapeBody(request.shape)).request.metadata,
     diagnostics |-> Diagnostics(w, response)]

\* start(): self._running.set()
WorkerStart(w) ==
    /\ mainPc[w] = "none"
    /\ running' = [running EXCEPT ![w] = TRUE]
    /\ mainPc' = [mainPc EXCEPT ![w] = "subscribe"]
    /\ UNCHANGED <<subVars, decode_responses, store, clock, opVars, logVars, nExec, repoRet, haltVars,
                   listener, queue, wPc, wReq, wHaltAtInvoke, calls, signals, nReq, msgVars,
                   stopPc, lateBeats, blockedBeats>>

\* start(): subscribe(): pubsub.subscribe(channel), thread.start()
WorkerSubscribe(w) ==
    /\ mainPc[w] = "subscribe"
    /\ listener' = [listener EXCEPT ![w] = "alive"]
    /\ mainPc' = [mainPc EXCEPT ![w] = "loop"]
    /\ UNCHANGED <<subVars, decode_responses, store, clock, opVars, logVars, nExec, repoRet, haltVars,
                   queue, wPc, wReq, wHaltAtInvoke, calls, signals, nReq, msgVars,
                   running, stopPc, lateBeats, blockedBeats>>

\* start(): while self._running.is_set()
WorkerLoopCheck(w) ==
    /\ mainPc[w] = "loop"
    /\ mainPc' = [mainPc EXCEPT ![w] = IF running[w] THEN "body" ELSE "returned"]
    /\ UNCHANGED <<subVars, decode_responses, store, clock, opVars, logVars, nExec, repoRet, haltVars,
                   listener, queue, wPc, wReq, wHaltAtInvoke, calls, signals, nReq, msgVars,
                   running, stopPc, lateBeats, blockedBeats>>

\* the loop body waits for the handler: no heartbeat while the collaborator runs
WorkerHeartbeat_HandlerFirst(w, due) ==
    /\ mainPc[w] = "body"
    /\ wPc[w] # "inferring"
    /\ lateBeats[w] < MaxBeats
    /\ mainPc' = [mainPc EXCEPT ![w] = "loop"]
    /\ lateBeats' = [lateBeats EXCEPT ![w] = IF due /\ stopPc[w] # "none" THEN @ + 1 ELSE @]
    /\ UNCHANGED <<subVars, decode_responses, store, clock, opVars, logVars, nExec, repoRet, haltVars,
                   listener, queue, wPc, wReq, wHaltAtInvoke, calls, signals, nReq, msgVars,
                   running, stopPc, blockedBeats>>

\* start(): the loop body: write_heartbeat when the interval has passed (due), sleep
WorkerHeartbeat(w, due) ==
    /\ mainPc[w] = "body"
    /\ lateBeats[w] < MaxBeats
    /\ mainPc' = [mainPc EXCEPT ![w] = "loop"]
    /\ lateBeats' = [lateBeats EXCEPT ![w] = IF due /\ stopPc[w] # "none" THEN @ + 1 ELSE @]
    /\ blockedBeats' = [blockedBeats EXCEPT ![w] =
           IF due /\ wPc[w] = "inferring" /\ @ < MaxBeats THEN @ + 1 ELSE @]
    /\ UNCHANGED <<subVars, decode_responses, store, clock, opVars, logVars, nExec, repoRet, haltVars,
                   listener, queue, wPc, wReq, wHaltAtInvoke, calls, signals, nReq, msgVars,
                   running, stopPc>>

\* stop() goes straight to unsubscribe, the running flag left set
WorkerStop_FlagLeftSet(w) ==
    /\ mainPc[w] \in {"loop", "body"}
    /\ stopPc[w] = "none"
    /\ stopPc' = [stopPc EXCEPT ![w] = "cleared"]
    /\ UNCHANGED <<subVars, decode_responses, store, clock, opVars, logVars, nExec, repoRet, haltVars,
                   listener, queue, wPc, wReq, wHaltAtInvoke, calls, signals, nReq, msgVars,
                   running, mainPc, lateBeats, blockedBeats>>

\* stop(), called while the loop of start() runs: self._running.clear()
WorkerStop(w) ==
    /\ mainPc[w] \in {"loop", "body"}
    /\ stopPc[w] = "none"
    /\ running' = [running EXCEPT ![w] = FALSE]
    /\ stopPc' = [stopPc EXCEPT ![w] = "cleared"]
    /\ UNCHANGED <<subVars, decode_responses, store, clock, opVars, logVars, nExec, repoRet, haltVars,
                   listener, queue, wPc, wReq, wHaltAtInvoke, calls, signals, nReq, msgVars,
                   mainPc, lateBeats, blockedBeats>>

\* stop(), called before start() or before start() has subscribed:
\* self._running.clear(); the unsubscribe that follows finds no entry
WorkerStopEarly(w) ==
    /\ mainPc[w] \in {"none", "subscribe"}
    /\ stopPc[w] = "none"
    /\ running' = [running EXCEPT ![w] = FALSE]
    /\ stopPc' = [stopPc EXCEPT ![w] = "cleared"]
    /\ UNCHANGED <<subVars, decode_responses, store, clock, opVars, logVars, nExec, repoRet, haltVars,
                   listener, queue, wPc, wReq, wHaltAtInvoke, calls, signals, nReq, msgVars,
                   mainPc, lateBeats, blockedBeats>>

\* stop(): unsubscribe(channel): pubsub.unsubscribe, pubsub.close, thread.join(timeout=1);
\* a callback in flight is left to run, the messages not yet taken are gone
WorkerUnsubscribe(w) ==
    /\ stopPc[w] = "cleared"
    /\ stopPc' = [stopPc EXCEPT ![w] = "done"]
    /\ listener' = [listener EXCEPT ![w] = IF @ = "alive" THEN "closed" ELSE @]
    /\ queue' = [queue EXCEPT ![w] = <<>>]
    /\ UNCHANGED <<subVars, decode_responses, store, clock, opVars, logVars, nExec, repoRet, haltVars,
                   wPc, wReq, wHaltAtInvoke, calls, signals, nReq, msgVars,
                   running, mainPc, lateBeats, blockedBeats>>

\* a producer publishes a payload: every open pub/sub connection receives it
PublishRequest(shape) ==
    /\ nReq < MaxReq
    /\ nReq' = nReq + 1
    /\ LET payload == [id |-> nReq + 1, shape |-> shape, afterHalt |-> haltReturned,
                       resumes |-> resumes]
       IN  queue' = [w \in Workers |->
                        IF listener[w] = "alive" THEN Append(queue[w], payload) ELSE queue[w]]
    /\ UNCHANGED <<subVars, decode_responses, store, clock, opVars, logVars, nExec, repoRet, haltVars,
                   listener, wPc, wReq, wHaltAtInvoke, calls, signals, msgVars, lifeVars>>

\* listener(): message = pubsub.get_message(...); callback(str(data)):
\* handle_message is invoked and decodes the payload
Deliver(w) ==
    /\ listener[w] = "alive"
    /\ wPc[w] = "idle"
    /\ queue[w] # <<>>
    /\ queue' = [queue EXCEPT ![w] = Tail(queue[w])]
    /\ wHaltAtInvoke' = [wHaltAtInvoke EXCEPT ![w] = StoredHalt]
    /\ IF DecodeRaises(Head(queue[w]))
       THEN UNCHANGED <<wPc, wReq>>
       ELSE /\ wPc' = [wPc EXCEPT ![w] = "read"]
            /\ wReq' = [wReq EXCEPT ![w] = Head(queue[w])]
    /\ UNCHANGED <<subVars, decode_responses, store, clock, opVars, logVars, nExec, repoRet, haltVars,
                   listener, calls, signals, nReq, msgVars, lifeVars>>

\* the callback raised: the exception leaves listener(), finally closes the pubsub
ListenerDies(w) ==
    /\ listener' = [listener EXCEPT ![w] = "dead"]
    /\ queue' = [queue EXCEPT ![w] = <<>>]
    /\ wPc' = [wPc EXCEPT ![w] = "idle"]
    /\ wReq' = [wReq EXCEPT ![w] = NoRequest]

\* handle_message returns to listener()
HandlerReturns(w) ==
    /\ wPc' = [wPc EXCEPT ![w] = "idle"]
    /\ wReq' = [wReq EXCEPT ![w] = NoRequest]
    /\ UNCHANGED <<listener, queue>>

\* snapshot = self._ops_repository.get_snapshot() ; if snapshot.global_halt: return
WorkerRead(w) ==
    /\ wPc[w] = "read"
    /\ LET got == get_snapshot(store, decode_responses, clock)
       IN  CASE got.kind = "init" ->
                  /\ wPc' = [wPc EXCEPT ![w] = "init"]
                  /\ UNCHANGED <<listener, queue, wReq>>
             [] got.kind = "raise" -> ListenerDies(w)
             [] got.kind = "ok" ->
                  IF got.snapshot.global_halt
                  THEN HandlerReturns(w)
                  ELSE /\ wPc' = [wPc EXCEPT ![w] = "call"]
                       /\ UNCHANGED <<listener, queue, wReq>>
    /\ UNCHANGED <<subVars, decode_responses, store, clock, opVars, logVars, nExec, repoRet, haltVars,
                   wHaltAtInvoke, calls, signals, nReq, msgVars, lifeVars>>

\* get_snapshot found the hash empty: _store_snapshot writes the defaults and the
\* default snapshot (global_halt False) is returned
WorkerInit(w) ==
    /\ wPc[w] = "init"
    /\ store' = HSet(store, _store_snapshot(
                    OpsFlagSnapshot(FALSE, <<>>, <<>>, One,
                                    _default_metadata("initialized", clock)),
                    "initialize", clock))
    /\ wPc' = [wPc EXCEPT ![w] = "call"]
    /\ UNCHANGED <<subVars, decode_responses, clock, opVars, logVars, nExec, repoRet, haltVars,
                   listener, queue, wReq, wHaltAtInvoke, calls, signals, nReq, msgVars,
                   lifeVars>>

\* response = self._inference_usecase.execute(request): the call is made
WorkerCall(w) ==
    /\ wPc[w] = "call"
    /\ calls' = [calls EXCEPT ![w][wReq[w].id] = @ + 1]
    /\ wPc' = [wPc EXCEPT ![w] = "inferring"]
    /\ UNCHANGED <<subVars, decode_responses, store, clock, opVars, logVars, nExec, repoRet, haltVars,
                   listener, queue, wReq, wHaltAtInvoke, signals, nReq, msgVars, lifeVars>>

\* the collaborator returns a response with these diagnostics, or raises
WorkerCallEnds(w, raises, diagnostics) ==
    /\ wPc[w] = "inferring"
    /\ IF raises
       THEN /\ ListenerDies(w)
            /\ UNCHANGED wResp
       ELSE /\ wPc' = [wPc EXCEPT ![w] = "publish"]
            /\ wResp' = [wResp EXCEPT ![w] = InferenceResponse(<<wReq[w].id>>, diagnostics)]
            /\ UNCHANGED <<listener, queue, wReq>>
    /\ UNCHANGED <<subVars, decode_responses, store, clock, opVars, logVars, nExec, repoRet, haltVars,
                   wHaltAtInvoke, calls, signals, nReq, outbox, lifeVars>>

\* self._signal_publisher.publish(inference_signal_channel, json.dumps(payload_dict))
WorkerPublish(w) ==
    /\ wPc[w] = "publish"
    /\ signals' = [signals EXCEPT ![w][wReq[w].id] = @ + 1]
    /\ outbox' = [outbox EXCEPT ![w] = Append(@, SignalMessage(w, wReq[w], wResp[w]))]
    /\ wResp' = [wResp EXCEPT ![w] = NoInference]
    /\ HandlerReturns(w)
    /\ UNCHANGED <<subVars, decode_responses, store, clock, opVars, logVars, nExec, repoRet, haltVars,
                   wHaltAtInvoke, calls, nReq, lifeVars>>

(***************************************************************************)
(* RedisSubscriberImpl: subscribe / unsubscribe of one channel and the     *)
(* listener threads they start and close                                   *)
(***************************************************************************)
offSubscriber == <<decode_responses, store, clock, opVars, logVars, nExec, repoRet, haltVars,
                   listener, queue, wPc, wReq, wHaltAtInvoke, calls, signals, nReq, msgVars,
                   lifeVars>>

\* a listener whose loop `while pubsub.subscribed` still runs or is inside the callback
Running(t) == thread[t] \in {"polling", "callback"}

\* subscribe(): pubsub = client.pubsub(); pubsub.subscribe(channel); thread.start()
SubscribeStart ==
    /\ callPc = "idle"
    /\ \E t \in Threads :
          /\ thread[t] = "unborn"
          /\ \A u \in Threads : u < t => thread[u] # "unborn"
          /\ thread' = [thread EXCEPT ![t] = "polling"]
          /\ pubsub' = [pubsub EXCEPT ![t] = "open"]
          /\ callThread' = t
    /\ callPc' = "registering"
    /\ quiet' = FALSE
    /\ UNCHANGED <<offSubscriber, subscriptions, inbox, delivered, nPub, late>>

\* subscribe(): with self._lock: self._subscriptions[channel] = (pubsub, thread)
SubscribeRegister ==
    /\ callPc = "registering"
    /\ subscriptions' = callThread
    /\ callPc' = "idle"
    /\ callThread' = 0
    /\ UNCHANGED <<offSubscriber, thread, pubsub, inbox, delivered, nPub, late, quiet>>

\* unsubscribe(): pubsub_thread = self._subscriptions.pop(channel, None);
\* if not pubsub_thread: return
UnsubscribePop ==
    /\ callPc = "idle"
    /\ IF subscriptions = 0
       THEN /\ quiet' = TRUE
            /\ UNCHANGED <<subscriptions, callPc, callThread>>
       ELSE /\ callThread' = subscriptions
            /\ subscriptions' = 0
            /\ callPc' = "closing"
            /\ UNCHANGED quiet
    /\ UNCHANGED <<offSubscriber, thread, pubsub, inbox, delivered, nPub, late>>

\* unsubscribe(): pubsub.unsubscribe(channel); pubsub.close(); thread.join(timeout=1):
\* the join gives up after a second, so the call returns with a callback in flight
UnsubscribeClose ==
    /\ callPc = "closing"
    /\ pubsub' = [pubsub EXCEPT ![callThread] = "closed"]
    /\ inbox' = [inbox EXCEPT ![callThread] = <<>>]
    /\ callPc' = "idle"
    /\ callThread' = 0
    /\ quiet' = TRUE
    /\ UNCHANGED <<offSubscriber, subscriptions, thread, delivered, nPub, late>>

\* a message is published to the channel: every subscribed connection receives it
Publish ==
    /\ nPub < MaxMsg
    /\ nPub' = nPub + 1
    /\ inbox' = [t \in Threads |->
                    IF pubsub[t] = "open" THEN Append(inbox[t], nPub + 1) ELSE inbox[t]]
    /\ late' = IF quiet THEN late \cup {nPub + 1} ELSE late
    /\ UNCHANGED <<offSubscriber, subscriptions, thread, pubsub, delivered, quiet, callPc,
                   callThread>>

\* listener(): message = pubsub.get_message(...); callback(str(data))
ListenerCallback(t) ==
    /\ thread[t] = "polling"
    /\ pubsub[t] = "open"
    /\ inbox[t] # <<>>
    /\ inbox' = [inbox EXCEPT ![t] = Tail(@)]
    /\ delivered' = [delivered EXCEPT ![t][Head(inbox[t])] = @ + 1]
    /\ thread' = [thread EXCEPT ![t] = "callback"]
    /\ UNCHANGED <<offSubscriber, subscriptions, pubsub, nPub, late, quiet, callPc, callThread>>

\* the callback returns to the loop, or raises: the exception leaves listener()
\* through `finally: pubsub.close()`
CallbackEnds(t, raises) ==
    /\ thread[t] = "callback"
    /\ thread' = [thread EXCEPT ![t] = IF raises THEN "ended" ELSE "polling"]
    /\ pubsub' = [pubsub EXCEPT ![t] = IF raises THEN "closed" ELSE @]
    /\ inbox' = [inbox EXCEPT ![t] = IF raises THEN <<>> ELSE @]
    /\ UNCHANGED <<offSubscriber, subscriptions, delivered, nPub, late, quiet, callPc,
                   callThread>>

\* listener(): `while pubsub.subscribed` is false once the pubsub was closed
ListenerExit(t) ==
    /\ thread[t] = "polling"
    /\ pubsub[t] = "closed"
    /\ thread' = [thread EXCEPT ![t] = "ended"]
    /\ UNCHANGED <<offSubscriber, subscriptions, pubsub, inbox, delivered, nPub, late, quiet,
                   callPc, callThread>>

(***************************************************************************)
(* Specifications                                                          *)
(***************************************************************************)
NoReturn == Returned(0, NoCommand, "none", NoResponse)

\* everything but the flag hash, after construction
InitOthers ==
    /\ decode_responses \in BOOLEAN
    /\ clock = 0
    /\ opPc = [o \in Operators |-> "idle"]
    /\ opCmd = [o \in Operators |-> NoCommand]
    /\ opResp = [o \in Operators |-> NoResponse]
    /\ opRet = [o \in Operators |-> NoReturn]
    /\ opPre = [o \in Operators |-> [seq |-> 0, store |-> EmptyMap, audit |-> 0, events |-> 0,
                                     notes |-> 0]]
    /\ opSnap = [o \in Operators |-> NoSnapshot]
    /\ audit = <<>>
    /\ events = <<>>
    /\ notes = <<>>
    /\ nExec = 0
    /\ repoRet = [seq |-> 0, call |-> RepoCall("none", FALSE, <<>>, One, ""), pre |-> EmptyMap,
                  outcome |-> "none"]
    /\ haltReturned = FALSE
    /\ resumes = 0
    /\ listener = [w \in Workers |-> "none"]
    /\ queue = [w \in Workers |-> <<>>]
    /\ wPc = [w \in Workers |-> "idle"]
    /\ wReq = [w \in Workers |-> NoRequest]
    /\ wHaltAtInvoke = [w \in Workers |-> FALSE]
    /\ calls = [w \in Workers |-> [i \in 1..MaxReq |-> 0]]
    /\ signals = [w \in Workers |-> [i \in 1..MaxReq |-> 0]]
    /\ nReq = 0
    /\ wResp = [w \in Workers |-> NoInference]
    /\ outbox = [w \in Workers |-> <<>>]
    /\ running = [w \in Workers |-> FALSE]
    /\ mainPc = [w \in Workers |-> "none"]
    /\ stopPc = [w \in Workers |-> "none"]
    /\ lateBeats = [w \in Workers |-> 0]
    /\ blockedBeats = [w \in Workers |-> 0]
    /\ subscriptions = 0
    /\ thread = [t \in Threads |-> "unborn"]
    /\ pubsub = [t \in Threads |-> "none"]
    /\ inbox = [t \in Threads |-> <<>>]
    /\ delivered = [t \in Threads |-> [m \in 1..MaxMsg |-> 0]]
    /\ nPub = 0
    /\ late = {}
    /\ quiet = FALSE
    /\ callPc = "idle"
    /\ callThread = 0

Init == store = EmptyMap /\ InitOthers

\* the ops command service and the repository used by one caller at a time,
\* over every command and argument
ServiceNext ==
    \/ \E command \in Commands : ExecBegin("op1", command)
    \/ ExecRead("op1")
    \/ ExecInit("op1")
    \/ ExecAudit("op1")
    \/ ExecPublish("op1")
    \/ ExecNotify("op1")
    \/ \E call \in RepoCalls : RepoSet(call)

SpecService == Init /\ [][ServiceNext]_vars

\* texts found in the fields of a flag hash that some writer left behind:
\* global_halt "1", "0", "maybe"; halted_pairs '["A"]', 'oops', '"BA"', '{}';
\* leverage_scale "0.800000", "abc", "0.000000", "nan"; metadata '{"reason": "x"}', 'oops'
StoredGlobalHalt == {"1", "0", "maybe"}
StoredHaltedPairs ==
    {JsonArray(<< <<"A">> >>), NotJson(<<>>), JsonString(<<"B", "A">>),
     [json |-> "object", val |-> <<>>]}
StoredFlattenPairs == {JsonArray(<< <<"B">> >>)}
StoredLeverage == {Dec(8000000), BadText, Dec(0), NanText}
StoredMetadata == {JsonObject([reason |-> "x"]), NotJson(EmptyMap)}

\* a hash with any of its fields missing
Restrict(f, keys) == [k \in keys |-> f[k]]
StoredRecords ==
    { Restrict([global_halt |-> g, halted_pairs |-> h, flatten_pairs |-> f,
                leverage_scale |-> l, metadata |-> m], keys) :
        g \in StoredGlobalHalt, h \in StoredHaltedPairs, f \in StoredFlattenPairs,
        l \in StoredLeverage, m \in StoredMetadata,
        keys \in SUBSET {"global_halt", "halted_pairs", "flatten_pairs", "leverage_scale",
                         "metadata"} }

InitRecord == store \in StoredRecords /\ InitOthers

\* the status command read over each stored record
RecordNext ==
    \/ ExecBegin("op1", OpsCommand(status, EmptyMap, EmptyMap))
    \/ ExecRead("op1")
    \/ ExecInit("op1")
    \/ ExecAudit("op1")
    \/ ExecPublish("op1")
    \/ ExecNotify("op1")

SpecRecord == InitRecord /\ [][RecordNext]_vars

\* mutating commands issued by operators working at the same time
WriteCommands ==
    { OpsCommand(halt_global, EmptyMap, EmptyMap),
      OpsCommand(resume_global, EmptyMap, Actor),
      OpsCommand(halt_pairs, [pairs |-> <<"B", ",", " ", "A">>], EmptyMap),
      OpsCommand(flatten_pairs, [pairs |-> <<"A">>], EmptyMap),
      OpsCommand(set_leverage, [leverage |-> Dec(8000000)], EmptyMap),
      OpsCommand(set_leverage, [leverage |-> Dec(0)], EmptyMap) }

\* set_* calls of concurrent operators, through the service and on the repository
WritesNext ==
    \/ \E o \in Operators, command \in WriteCommands : ExecBegin(o, command)
    \/ \E o \in Operators : ExecRead(o)
    \/ \E o \in Operators : ExecAudit(o)
    \/ \E o \in Operators : ExecPublish(o)
    \/ \E o \in Operators : ExecNotify(o)
    \/ \E call \in RepoCalls : RepoSet(call)

SpecWrites == Init /\ [][WritesNext]_vars

\* a worker alone, fed every payload shape; the halt flag set and cleared meanwhile
WorkerNext ==
    \/ WorkerStart("w1")
    \/ WorkerSubscribe("w1")
    \/ \E shape \in WireShapes : PublishRequest(shape)
    \/ Deliver("w1")
    \/ WorkerRead("w1")
    \/ WorkerInit("w1")
    \/ WorkerCall("w1")
    \/ \E raises \in BOOLEAN, diagnostics \in DiagnosticsInputs :
          WorkerCallEnds("w1", raises, diagnostics)
    \/ WorkerPublish("w1")
    \/ \E v \in BOOLEAN : RepoSet(RepoCall("set_global_halt", v, <<>>, One, "unit-test"))

SpecWorker == Init /\ [][WorkerNext]_vars

\* a worker started, fed requests and stopped
LifecycleNext ==
    \/ WorkerStart("w1")
    \/ WorkerSubscribe("w1")
    \/ WorkerLoopCheck("w1")
    \/ \E due \in BOOLEAN : WorkerHeartbeat("w1", due)
    \/ WorkerStop("w1")
    \/ WorkerUnsubscribe("w1")
    \/ PublishRequest("valid")
    \/ Deliver("w1")
    \/ WorkerRead("w1")
    \/ WorkerInit("w1")
    \/ WorkerCall("w1")
    \/ \E raises \in BOOLEAN : WorkerCallEnds("w1", raises, PlainDiagnostics)
    \/ WorkerPublish("w1")

\* the thread in start() and the caller of stop() are scheduled; nothing says a
\* collaborator ever returns
SpecLifecycle ==
    /\ Init /\ [][LifecycleNext]_vars
    /\ WF_vars(WorkerLoopCheck("w1"))
    /\ WF_vars(\E due \in BOOLEAN : WorkerHeartbeat("w1", due))
    /\ WF_vars(WorkerUnsubscribe("w1"))

\* start() and stop() of one worker called in any order
StopRaceNext ==
    \/ LifecycleNext
    \/ WorkerStopEarly("w1")

SpecStopRace ==
    /\ Init /\ [][StopRaceNext]_vars
    /\ WF_vars(WorkerSubscribe("w1"))
    /\ WF_vars(WorkerLoopCheck("w1"))
    /\ WF_vars(\E due \in BOOLEAN : WorkerHeartbeat("w1", due))
    /\ WF_vars(WorkerUnsubscribe("w1"))

\* the same worker with a clock that moves on: the heartbeat interval elapses again
\* and again, while nothing says a collaborator call ever ends
SpecHeartbeat ==
    /\ Init /\ [][LifecycleNext]_vars
    /\ WF_vars(WorkerLoopCheck("w1"))
    /\ WF_vars(\E due \in BOOLEAN : WorkerHeartbeat("w1", due))
    /\ SF_vars(WorkerHeartbeat("w1", TRUE))
    /\ WF_vars(WorkerUnsubscribe("w1"))

\* every worker instance started on the same request channel; requests are
\* published once all of them are subscribed, and global_halt is never set
FanoutNext ==
    \/ \E w \in Workers : WorkerStart(w)
    \/ \E w \in Workers : WorkerSubscribe(w)
    \/ ((\A w \in Workers : listener[w] = "alive") /\ PublishRequest("valid"))
    \/ \E w \in Workers : Deliver(w)
    \/ \E w \in Workers : WorkerRead(w)
    \/ \E w \in Workers : WorkerInit(w)
    \/ \E w \in Workers : WorkerCall(w)
    \/ \E w \in Workers, raises \in BOOLEAN : WorkerCallEnds(w, raises, PlainDiagnostics)
    \/ \E w \in Workers : WorkerPublish(w)

SpecFanout == Init /\ [][FanoutNext]_vars

\* one subscriber object: any sequence of subscribe and unsubscribe calls for one
\* channel, messages published meanwhile, callbacks that return or raise
SubscriberNext ==
    \/ SubscribeStart
    \/ SubscribeRegister
    \/ UnsubscribePop
    \/ UnsubscribeClose
    \/ Publish
    \/ \E t \in Threads : ListenerCallback(t)
    \/ \E t \in Threads, raises \in BOOLEAN : CallbackEnds(t, raises)
    \/ \E t \in Threads : ListenerExit(t)

SpecSubscriber == Init /\ [][SubscriberNext]_vars

\* commands issued while the publisher or the notifier may be down
OutageCommands ==
    { OpsCommand(status, EmptyMap, EmptyMap),
      OpsCommand(halt_global, EmptyMap, Actor),
      OpsCommand(resume_global, EmptyMap, EmptyMap),
      OpsCommand(halt_pairs, [pairs |-> <<"B", ",", " ", "A">>], EmptyMap),
      OpsCommand(flatten_pairs, [pairs |-> <<"A">>], EmptyMap),
      OpsCommand(set_leverage, [leverage |-> Dec(8000000)], EmptyMap),
      OpsCommand(set_leverage, [leverage |-> Dec(0)], EmptyMap) }

\* the ops command service whose publisher and notifier may raise
OutageNext ==
    \/ \E command \in OutageCommands : ExecBegin("op1", command)
    \/ ExecRead("op1")
    \/ ExecInit("op1")
    \/ ExecAudit("op1")
    \/ ExecPublish("op1")
    \/ ExecPublishRaises("op1")
    \/ ExecNotify("op1")
    \/ ExecNotifyRaises("op1")

SpecOutage == Init /\ [][OutageNext]_vars

\* commands issued by concurrent operators
ConcCommands ==
    { OpsCommand(status, EmptyMap, EmptyMap),
      OpsCommand(halt_global, EmptyMap, EmptyMap),
      OpsCommand(resume_global, EmptyMap, EmptyMap) }

\* an operator, a worker and the producers of requests running concurrently
Next ==
    \/ \E command \in ConcCommands : ExecBegin("op1", command)
    \/ ExecRead("op1")
    \/ ExecInit("op1")
    \/ ExecAudit("op1")
    \/ ExecPublish("op1")
    \/ ExecNotify("op1")
    \/ WorkerStart("w1")
    \/ WorkerSubscribe("w1")
    \/ \E shape \in PayloadShapes : PublishRequest(shape)
    \/ Deliver("w1")
    \/ WorkerRead("w1")
    \/ WorkerInit("w1")
    \/ WorkerCall("w1")
    \/ \E raises \in BOOLEAN : WorkerCallEnds("w1", raises, PlainDiagnostics)
    \/ WorkerPublish("w1")

Spec == Init /\ [][Next]_vars

\* the same system over a client that decodes replies (decode_responses=True)
InitDecoded == Init /\ decode_responses = TRUE

SpecDecoded == InitDecoded /\ [][Next]_vars

(***************************************************************************)
(* Properties                                                              *)
(***************************************************************************)
FlagFields == {"global_halt", "halted_pairs", "flatten_pairs", "leverage_scale"}

\* a worker that has called the inference collaborator in its current handle_message
HasCalled(w) == wPc[w] \in {"inferring", "publish"}

\* C1: gate correctness. If the stored global_halt is true when handle_message is
\* invoked, that invocation never calls the inference collaborator (and so never
\* reaches its publish).
C1_GateCorrectness == \A w \in Workers : wHaltAtInvoke[w] => ~HasCalled(w)

\* C2: fail-safe halt as a system invariant. No worker is inside the inference
\* collaborator, and none publishes a signal, while the stored global_halt is true.
C2_FailSafeHalt ==
    [][\A w \in Workers :
          /\ (wPc'[w] = "inferring" => ~StoredHalt')
          /\ (signals'[w] # signals[w] => ~StoredHalt)]_vars

\* C3: halt then request. A request published after a halt_global returned ok is
\* never answered by a signal message, unless a resume_global was executed since.
C3_HaltThenRequest ==
    [][\A w \in Workers :
          signals'[w] # signals[w] =>
              ~(wReq[w].afterHalt /\ wReq[w].resumes = resumes)]_vars

\* a step in which a get_snapshot call writes the store (its lazy initialization)
InitWrite ==
    \/ \E o \in Operators : opPc[o] = "init" /\ opPc'[o] # "init"
    \/ \E w \in Workers : wPc[w] = "init" /\ wPc'[w] # "init"

\* C4: a read is never a write of flag values. No get_snapshot call changes a flag
\* value that is in the store (put there by a completed set_* call).
C4_ReadNeverWrites ==
    [][InitWrite => \A f \in FlagFields \cap DOMAIN store : store'[f] = store[f]]_vars

\* the stored six-decimal text is that of a number > 0
TextPositive(text) == text.k = "dec" /\ text.u > 0

\* the state right after a direct repository call
JustCalled == repoRet.seq = nExec /\ repoRet.seq > 0

\* C5: leverage invariant. The stored leverage_scale text is > 0, get_snapshot
\* returns a snapshot with leverage_scale > 0, and a set_leverage_scale(value <= 0)
\* raises and leaves the store as it was.
C5_LeveragePositive ==
    /\ "leverage_scale" \in DOMAIN store => TextPositive(store["leverage_scale"])
    /\ LET got == get_snapshot(store, decode_responses, clock)
       IN  got.kind # "raise" /\ FloatGt0(got.snapshot.leverage_scale)
    /\ (JustCalled /\ repoRet.call.method = "set_leverage_scale"
           /\ repoRet.call.value.k = "num" /\ repoRet.call.value.u <= 0)
          => (repoRet.outcome = "raised" /\ store = repoRet.pre)

\* C6: execute never raises: every finished execute returned an OpsResponse whose
\* status is ok or error.
C6_NeverRaises ==
    \A o \in Operators :
        opRet[o].seq > 0 =>
            /\ opRet[o].outcome = "returned"
            /\ opRet[o].response.status \in {"ok", "error"}

\* C7: listener tolerance. A raising callback does not end the listener thread (a
\* listener is "dead" only by an exception that left the callback), so the messages
\* published afterwards are still delivered.
C7_ListenerTolerance == \A w \in Workers : listener[w] # "dead"

\* C8: write/read round trip of the repository, over the decoding and over the
\* runtime client: right after set_global_halt(v, reason=r), get_snapshot returns
\* global_halt = v and metadata["reason"] = r; right after set_halted_pairs(P) it
\* returns halted_pairs with exactly the members of P.
C8_RoundTrip ==
    (JustCalled /\ repoRet.outcome = "ok") =>
        LET got == get_snapshot(store, decode_responses, clock)
        IN  /\ repoRet.call.method = "set_global_halt" =>
                  /\ got.kind = "ok"
                  /\ got.snapshot.global_halt = repoRet.call.flag
                  /\ MapGet(got.snapshot.metadata, "reason", None) = repoRet.call.reason
            /\ repoRet.call.method = "set_halted_pairs" =>
                  /\ got.kind = "ok"
                  /\ SeqToSet(got.snapshot.halted_pairs) = SeqToSet(repoRet.call.pairs)

\* a pairs text with nothing but blanks and commas
AllBlank(csv) == \A i \in 1..Len(csv) : csv[i] \in {" ", ","}

\* the arguments of a recognized command fail validation
InvalidArguments(command) ==
    \/ /\ command.command \in {halt_pairs, flatten_pairs}
       /\ ("pairs" \notin DOMAIN command.arguments \/ AllBlank(command.arguments["pairs"]))
    \/ /\ command.command = set_leverage
       /\ \/ "leverage" \notin DOMAIN command.arguments
          \/ command.arguments["leverage"].k # "dec"
          \/ command.arguments["leverage"].u <= 0

\* the state in which execute has just returned to operator o, nothing started since
JustReturned(o) == opPc[o] = "idle" /\ opRet[o].seq = nExec /\ opRet[o].seq > 0

\* C9: a recognized command whose arguments fail validation returns status error
\* and leaves every field of the flag store as it was when execute was entered.
C9_InvalidArgumentsRejected ==
    \A o \in Operators :
        (JustReturned(o) /\ InvalidArguments(opRet[o].command)) =>
            /\ opRet[o].outcome = "returned"
            /\ opRet[o].response.status = "error"
            /\ store = opPre[o].store

\* the lower-cased form of the command names issued
CanonicalName(name) ==
    CASE name = Halt_Global -> halt_global
      [] name = STATUS -> status
      [] name = SET_LEVERAGE -> set_leverage
      [] OTHER -> name

RecognizedNames ==
    {status, halt_global, resume_global, halt_pairs, flatten_pairs, set_leverage}

\* C10: unknown command. A command whose lower-cased name is not a recognized one
\* returns status error in the step that entered execute, with no audit entry, no
\* ops event, no notification and no change of the flag store; a letter-case
\* variant of a recognized name is dispatched as that command (its execute goes on
\* into the handler, and its audit entry is named ops.<lower-cased name>).
C10_UnknownCommand ==
    [][\A o \in Operators :
          /\ opRet'[o].seq # opRet[o].seq =>
                IF CanonicalName(opRet'[o].command.command) \notin RecognizedNames
                THEN /\ opRet'[o].outcome = "returned"
                     /\ opRet'[o].response.status = "error"
                     /\ opRet'[o].seq = nExec' /\ nExec' = nExec + 1
                     /\ store' = store /\ audit' = audit
                     /\ events' = events /\ notes' = notes
                ELSE /\ nExec' = nExec
                     /\ opRet'[o].outcome = "returned" =>
                           /\ Len(audit') > opPre[o].audit
                           /\ audit'[opPre[o].audit + 1].event =
                                  OpsPrefix \o CanonicalName(opRet'[o].command.command)
          /\ (nExec' # nExec /\ opPc'[o] # "idle") =>
                CanonicalName(opCmd'[o].command) \in RecognizedNames]_vars

\* C10 witness: an unknown command was rejected while the store held flags and the
\* audit log held an entry
C10_Witness ==
    /\ opRet["op1"].command.command = bogus
    /\ opRet["op1"].response.status = "error"
    /\ opRet["op1"].seq = nExec
    /\ "global_halt" \in DOMAIN store
    /\ Len(audit) = 1

\* a recognized command has just returned a response to operator o
RecognizedReturn(o) ==
    /\ JustReturned(o)
    /\ opRet[o].outcome = "returned"
    /\ CanonicalName(opRet[o].command.command) \in RecognizedNames

\* the audit entries logged by the execute that has just returned to operator o
AuditOf(o) == SubSeq(audit, opPre[o].audit + 1, Len(audit))

\* C11: audit on every recognized command. An execute of a recognized command that
\* returns a response has logged exactly one audit entry, named ops.<lower-cased
\* command>, whose status and message are those of the response returned.
C11_AuditEveryCommand ==
    \A o \in Operators :
        RecognizedReturn(o) =>
            /\ Len(AuditOf(o)) = 1
            /\ AuditOf(o)[1].event = OpsPrefix \o CanonicalName(opRet[o].command.command)
            /\ AuditOf(o)[1].payload["status"] = opRet[o].response.status
            /\ AuditOf(o)[1].payload["message"] = opRet[o].response.message

\* the ops events published and the notifications sent by the execute that has just
\* returned to operator o
EventsOf(o) == SubSeq(events, opPre[o].events + 1, Len(events))
NotesOf(o) == SubSeq(notes, opPre[o].notes + 1, Len(notes))

\* C12: side effects only on success. An execute that returned status ok (the
\* read-only status command included) has published exactly one ops-event envelope
\* and sent exactly one notification titled ops.<command>; one that returned status
\* error has published nothing and notified nobody.
C12_SideEffectsOnlyOnSuccess ==
    \A o \in Operators :
        RecognizedReturn(o) =>
            IF opRet[o].response.status = "ok"
            THEN /\ Len(EventsOf(o)) = 1
                 /\ EventsOf(o)[1].command = opRet[o].command.command
                 /\ EventsOf(o)[1].status = "ok"
                 /\ EventsOf(o)[1].details = opRet[o].response.details
                 /\ Len(NotesOf(o)) = 1
                 /\ NotesOf(o)[1].title = OpsPrefix \o CanonicalName(opRet[o].command.command)
                 /\ NotesOf(o)[1].message = opRet[o].response.message
            ELSE /\ opRet[o].response.status = "error"
                 /\ EventsOf(o) = <<>>
                 /\ NotesOf(o) = <<>>

\* C12 witness: a rejected halt_pairs left both channels as the status command
\* before it had left them, with one envelope and one notification
C12_Witness ==
    /\ RecognizedReturn("op1")
    /\ opRet["op1"].command.command = halt_pairs
    /\ opRet["op1"].response.status = "error"
    /\ Len(events) = 1 /\ events[1].command = status
    /\ Len(notes) = 1
    /\ Len(audit) = 2

\* execute is left by an exception in this step, from its publish or its notify step
DownstreamRaise(o) ==
    /\ opPc[o] \in {"publish", "notify"}
    /\ opRet'[o].seq # opRet[o].seq
    /\ opRet'[o].outcome = "raised"

\* the mapping the handler of the command in execution has written
Written(o) == Handler(Lower(opCmd[o].command), opCmd[o], clock).mapping

\* C13: downstream failure is fail-loud and does not undo the mutation. When the
\* publisher or the notifier raises, execute ends with the exception, the store
\* keeps what the handler wrote, and the audit entry of the command is in the log;
\* the notifier is called only after a publish that did not raise.
C13_FailLoudNoRollback ==
    [][\A o \in Operators :
          /\ (opPc[o] \in {"publish", "notify"} /\ opPc'[o] = "idle") =>
                 \/ opRet'[o].outcome = "returned" /\ opPc[o] = "notify" /\ notes' # notes
                 \/ /\ DownstreamRaise(o)
                    /\ store' = store
                    /\ \A f \in DOMAIN Written(o) : store'[f] = Written(o)[f]
                    /\ audit' = audit
                    /\ Len(audit) = opPre[o].audit + 1
                    /\ notes' = notes /\ events' = events
                    /\ Len(notes) = opPre[o].notes
          /\ opPc'[o] = "notify" => Len(events') = opPre'[o].events + 1]_vars

\* C13 witness: the notifier raised in a halt_global: the caller got the exception,
\* the store says halted, the audit entry and the ops event are out, no notification
C13_Witness ==
    /\ opRet["op1"].outcome = "raised"
    /\ opRet["op1"].command.command = halt_global
    /\ opPc["op1"] = "idle"
    /\ StoredHalt
    /\ Len(audit) = 1 /\ Len(events) = 1 /\ notes = <<>>

\* the stored text of a field is missing, malformed or invalid
Unusable(st, f) ==
    \/ f \notin DOMAIN st
    \/ f = "global_halt" /\ st[f] \notin {"1", "0"}
    \/ f \in {"halted_pairs", "flatten_pairs"} /\ st[f].json # "array"
    \/ f = "leverage_scale" /\ ~(st[f].k = "dec" /\ st[f].u > 0)
    \/ f = "metadata" /\ st[f].json # "object"

\* the documented defaults
DefaultOf(f) ==
    CASE f = "global_halt" -> FALSE
      [] f \in {"halted_pairs", "flatten_pairs"} -> <<>>
      [] f = "leverage_scale" -> One
      [] f = "metadata" -> EmptyMap

\* C14: tolerant deserialization. For every non-empty stored record the get_snapshot
\* of the status command returns a snapshot (the command does not raise), and each
\* field whose stored text is missing, malformed or invalid comes back as its default.
C14_TolerantDeserialization ==
    /\ (opPc["op1"] = "read" /\ store # EmptyMap) =>
          LET got == get_snapshot(store, decode_responses, clock)
          IN  /\ got.kind = "ok"
              /\ \A f \in {"global_halt", "halted_pairs", "flatten_pairs", "leverage_scale",
                            "metadata"} :
                     Unusable(store, f) => got.snapshot[f] = DefaultOf(f)
    /\ opRet["op1"].outcome # "raised"

\* the trimmed, de-duplicated entries of the pairs texts issued, in sorted order
ExpectedEntries(text) ==
    CASE text = <<"A">> -> << <<"A">> >>
      [] text = <<"B">> -> << <<"B">> >>
      [] text = <<"A", ",", "A">> -> << <<"A">> >>
      [] text = <<" ", "B", ",", "A", " ">> -> << <<"A">>, <<"B">> >>
      [] text = <<"B", ",", " ", "A">> -> << <<"A">>, <<"B">> >>
      [] OTHER -> <<>>

\* halt_pairs or flatten_pairs has just returned status ok to operator o
PairsReturnedOk(o) ==
    /\ RecognizedReturn(o)
    /\ opRet[o].command.command \in {halt_pairs, flatten_pairs}
    /\ opRet[o].response.status = "ok"

\* the snapshot field and details key a pairs command writes
PairsField(o) ==
    IF opRet[o].command.command = halt_pairs THEN "halted_pairs" ELSE "flatten_pairs"

\* C18: pair halt round trip. After halt_pairs (flatten_pairs) returns ok, whatever
\* the store held before, get_snapshot gives halted_pairs (flatten_pairs) as exactly
\* the trimmed, de-duplicated, sorted entries of the argument, and the response's
\* details hold those entries joined by commas.
C18_PairsRoundTrip ==
    \A o \in Operators :
        PairsReturnedOk(o) =>
            LET expected == ExpectedEntries(opRet[o].command.arguments["pairs"])
                got == get_snapshot(store, decode_responses, clock)
            IN  /\ expected # <<>>
                /\ got.kind = "ok"
                /\ got.snapshot[PairsField(o)] = expected
                /\ opRet[o].response.details[PairsField(o)] = Join(expected, <<",">>)

\* the flag field a set_* method, and the handler of a command, is aimed at
TargetOfMethod(method) ==
    CASE method = "set_global_halt" -> "global_halt"
      [] method = "set_halted_pairs" -> "halted_pairs"
      [] method = "set_flatten_pairs" -> "flatten_pairs"
      [] method = "set_leverage_scale" -> "leverage_scale"
      [] OTHER -> "none"

TargetOfCommand(name) ==
    CASE name \in {halt_global, resume_global} -> "global_halt"
      [] name = halt_pairs -> "halted_pairs"
      [] name = flatten_pairs -> "flatten_pairs"
      [] name = set_leverage -> "leverage_scale"
      [] OTHER -> "none"

\* the text of field f in the store, "absent" when the hash has no such field
FieldText(st, f) == IF f \in DOMAIN st THEN <<st[f]>> ELSE <<>>

\* this step is a set_* call on field f: made on the repository, or by the handler
\* of operator o's command
RepoStepOn(f) ==
    /\ repoRet'.seq # repoRet.seq
    /\ repoRet'.outcome = "ok"
    /\ TargetOfMethod(repoRet'.call.method) = f

ExecStepOn(o, f) ==
    /\ opPc[o] = "idle" /\ opPc'[o] = "read"
    /\ TargetOfCommand(CanonicalName(opCmd'[o].command)) = f

SetCallOn(f) == RepoStepOn(f) \/ \E o \in Operators : ExecStepOn(o, f)

\* the text that call writes to its field
TextOfCall(f) ==
    IF RepoStepOn(f) THEN RepoMapping(repoRet'.call, clock)[f]
    ELSE LET o == CHOOSE o \in Operators : ExecStepOn(o, f)
         IN  Handler(CanonicalName(opCmd'[o].command), opCmd'[o], clock).mapping[f]

\* C19: field-level isolation of writes. In every interleaving of set_* calls of
\* concurrent operators, a flag field changes only in the step of a set_* call on
\* that field, which leaves it holding that call's value: a set_* call changes no
\* flag field but its own.
C19_FieldIsolation ==
    [][\A f \in FlagFields :
          /\ FieldText(store', f) # FieldText(store, f) => SetCallOn(f)
          /\ SetCallOn(f) => FieldText(store', f) = <<TextOfCall(f)>>]_vars

\* C19 witness: two operators' calls on different fields have both landed: the halt
\* of the first is still there after the pairs of the second, and the two other
\* fields were never set
C19_Witness ==
    /\ nExec = 2
    /\ opPc["op1"] # "idle" /\ opPc["op2"] # "idle"
    /\ DOMAIN store = {"global_halt", "halted_pairs", "metadata"}
    /\ store["global_halt"] = "1"
    /\ store["halted_pairs"] = JsonArray(<< <<"A">>, <<"B">> >>)

\* the payload violates the wire contract of a request: no JSON, no object, no array
\* of partition ids, no theta_params or a required key of it missing, metadata that
\* is no object, or theta values that fail validation
InvalidWire(body) ==
    \/ body.json # "object"
    \/ body.partition_ids.t # "list"
    \/ body.theta_params.t # "object"
    \/ ~(ThetaKeys \subseteq body.theta_params.keys)
    \/ body.metadata.t \notin {"absent", "object"}
    \/ ~body.theta_params.updated_at_ok
    \/ body.theta_params.theta1.k # "dec"
    \/ body.theta_params.theta2.k # "dec"
    \/ body.theta_params.theta1.u < 0 \/ body.theta_params.theta1.u > 10000000
    \/ body.theta_params.theta2.u < 0 \/ body.theta_params.theta2.u > 10000000
    \/ body.theta_params.updated_by = ""

\* the listener thread of w hands the next message to handle_message in this step
Invoked(w) ==
    /\ wPc[w] = "idle" /\ listener[w] = "alive"
    /\ queue[w] # <<>> /\ queue'[w] = Tail(queue[w])
    /\ stopPc'[w] = stopPc[w]

\* C15: decode errors are dropped, never raised. handle_message, given a payload that
\* violates the wire contract, returns in the step that invoked it: the listener
\* lives on, the flag store is not read (nor written), the collaborator is not
\* called, nothing is published, and the message is gone from the queue.
C15_DecodeErrorsDropped ==
    [][\A w \in Workers :
          (Invoked(w) /\ InvalidWire(ShapeBody(Head(queue[w]).shape))) =>
              /\ wPc'[w] = "idle"
              /\ listener'[w] = "alive"
              /\ store' = store
              /\ calls' = calls /\ signals' = signals /\ outbox' = outbox
              /\ \A i \in 1..Len(queue'[w]) : queue'[w][i].id # Head(queue[w]).id]_vars

\* the request handle_message works on satisfies the wire contract
ContractHolds(request) ==
    /\ request.partition_ids.t = "list" /\ request.partition_ids.n > 0
    /\ request.theta1.k = "num" /\ 0 <= request.theta1.u /\ request.theta1.u <= 10000000
    /\ request.theta2.k = "num" /\ 0 <= request.theta2.u /\ request.theta2.u <= 10000000
    /\ request.updated_by # ""

\* C16: request validation before inference. The inference collaborator is only
\* invoked with a request whose partition_ids is a non-empty list, whose theta1 and
\* theta2 lie in [0,1] and whose updated_by is non-empty.
C16_ValidatedBeforeInference ==
    [][\A w \in Workers :
          calls'[w] # calls[w] =>
              ContractHolds(_decode_inference_request(ShapeBody(wReq[w].shape)).request)]_vars

\* the number of metadata entries of the request in a payload
RequestMetadata(shape) ==
    IF ShapeBody(shape).metadata.t = "object" THEN ShapeBody(shape).metadata.n ELSE 0

\* C17: one request, one signal message. An invocation that read global_halt false
\* calls the collaborator once and, the collaborator having returned, publishes one
\* message, to the signal channel, with the collaborator's signals, the request's
\* metadata and diagnostics in which worker_id and inference_duration_ms are the
\* worker's own; nothing is published anywhere else in handle_message.
C17_OneRequestOneSignal ==
    [][\A w \in Workers :
          /\ (wPc[w] = "call" /\ wPc'[w] # "call") =>
                 /\ wPc'[w] = "inferring"
                 /\ calls[w][wReq[w].id] = 0 /\ calls'[w][wReq[w].id] = 1
          /\ (wPc[w] = "inferring" /\ wPc'[w] # "inferring") =>
                 wPc'[w] = "publish" \/ listener'[w] = "dead"
          /\ (wPc[w] = "publish" /\ wPc'[w] # "publish") =>
                 /\ wPc'[w] = "idle" /\ listener'[w] = listener[w]
                 /\ calls'[w][wReq[w].id] = 1
                 /\ signals[w][wReq[w].id] = 0 /\ signals'[w][wReq[w].id] = 1
                 /\ Len(outbox'[w]) = Len(outbox[w]) + 1
                 /\ SubSeq(outbox'[w], 1, Len(outbox[w])) = outbox[w]
                 /\ LET m == outbox'[w][Len(outbox'[w])]
                    IN  /\ m.channel = inference_signal_channel
                        /\ m.signals = wResp[w].signals
                        /\ m.metadata = RequestMetadata(wReq[w].shape)
                        /\ m.diagnostics["worker_id"] = w
                        /\ m.diagnostics["inference_duration_ms"] = "measured"
                        /\ \A k \in DOMAIN wResp[w].diagnostics :
                               /\ k \in DOMAIN m.diagnostics
                               /\ k \notin {"worker_id", "inference_duration_ms"} =>
                                      m.diagnostics[k] = wResp[w].diagnostics[k]
          /\ (outbox'[w] # outbox[w] \/ signals'[w] # signals[w]) => wPc[w] = "publish"]_vars

\* C17 witness: the collaborator's diagnostics named worker_id and
\* inference_duration_ms, and the one message published for request 1 carries the
\* worker's own
C17_Witness ==
    /\ wPc["w1"] = "idle"
    /\ calls["w1"][1] = 1 /\ signals["w1"][1] = 1
    /\ Len(outbox["w1"]) = 1
    /\ DOMAIN outbox["w1"][1].diagnostics = {"worker_id", "inference_duration_ms"}
    /\ outbox["w1"][1].diagnostics["worker_id"] = "w1"

\* C20: cooperative stop. Once stop() has cleared the flag, the next loop check ends
\* start() (so at most one more heartbeat is written) and start() does return; when
\* stop() has returned the request channel is unsubscribed; no step of stop()
\* touches a handle_message call in flight, which goes on to its publish.
C20_CooperativeStop ==
    /\ [][\A w \in Workers :
             /\ lateBeats'[w] <= 1
             /\ (stopPc[w] # "none" /\ mainPc[w] = "loop" /\ mainPc'[w] # "loop") =>
                    mainPc'[w] = "returned"
             /\ stopPc'[w] = "done" => (listener'[w] # "alive" /\ queue'[w] = <<>>)
             /\ stopPc'[w] # stopPc[w] =>
                    /\ wPc'[w] = wPc[w] /\ wReq'[w] = wReq[w] /\ wResp'[w] = wResp[w]
                    /\ calls' = calls /\ signals' = signals /\ outbox' = outbox]_vars
    /\ \A w \in Workers : (stopPc[w] # "none") ~> (mainPc[w] = "returned")

\* C20 witness: stop() has returned and so has start(), one heartbeat was written
\* after the flag was cleared, and the handle_message call that was in flight is
\* about to publish its signal
C20_Witness ==
    /\ stopPc["w1"] = "done"
    /\ mainPc["w1"] = "returned"
    /\ lateBeats["w1"] = 1
    /\ listener["w1"] = "closed"
    /\ wPc["w1"] = "publish"

\* C21: unsubscribe terminates the listener. The callback is never invoked for a
\* message published after an unsubscribe returned (and before the next subscribe);
\* when unsubscribe has returned no listener's connection is still open, so a
\* listener still running ends when the callback it is in returns; an unsubscribe
\* that finds no entry for the channel changes nothing.
C21_UnsubscribeTerminatesListener ==
    [][/\ \A t \in Threads : delivered'[t] # delivered[t] => Head(inbox[t]) \notin late
       /\ (quiet' /\ callPc' = "idle") => \A t \in Threads : pubsub'[t] # "open"
       /\ (callPc = "idle" /\ subscriptions = 0 /\ callPc' = "idle" /\ ~quiet /\ quiet') =>
              /\ thread' = thread /\ pubsub' = pubsub /\ inbox' = inbox
              /\ subscriptions' = 0 /\ delivered' = delivered]_vars

\* C28: at most one live listener per channel. At most one listener thread runs on
\* an open connection, outside a subscribe / unsubscribe call it is the one recorded
\* in _subscriptions, and no message is handed to the callback more than once.
C28_OneListenerPerChannel ==
    /\ Cardinality({t \in Threads : Running(t) /\ pubsub[t] = "open"}) <= 1
    /\ callPc = "idle" =>
           \A t \in Threads : (Running(t) /\ pubsub[t] = "open") => subscriptions = t
    /\ \A m \in 1..MaxMsg : \A t, u \in Threads :
           /\ delivered[t][m] <= 1
           /\ (t # u /\ delivered[t][m] > 0) => delivered[u][m] = 0

\* every request published so far has been taken from every queue and handled
AllHandled == \A w \in Workers : wPc[w] = "idle" /\ queue[w] = <<>>

\* C22: fan-out. A valid request published while every worker is subscribed and
\* global_halt is false is executed once by each worker and answered by one signal
\* message of each worker, carrying that worker's worker_id.
C22_FanOut ==
    /\ \A w \in Workers : \A i \in 1..MaxReq : calls[w][i] <= 1 /\ signals[w][i] <= 1
    /\ \A w \in Workers : \A k \in 1..Len(outbox[w]) :
           outbox[w][k].diagnostics["worker_id"] = w
    /\ AllHandled =>
           \A i \in 1..nReq : \A w \in Workers :
               /\ calls[w][i] = 1
               /\ signals[w][i] = 1
               /\ Len(outbox[w]) = nReq

\* operator o finishes a status command right after another status command of its
\* own that returned, no call of anyone in between
SecondStatus(o) ==
    /\ opRet'[o] # opRet[o]
    /\ opRet[o].seq > 0 /\ opRet'[o].seq = opRet[o].seq + 1
    /\ opRet[o].outcome = "returned"
    /\ Lower(opRet[o].command.command) = status
    /\ Lower(opRet'[o].command.command) = status

\* C23: read idempotence. The second of two get_snapshot calls with no write in
\* between returns what the first returned, metadata included, also when the first
\* found the hash empty; that first call returns global_halt false, no pairs and
\* leverage_scale 1.0, and stores them.
C23_ReadIdempotence ==
    [][\A o \in Operators :
          /\ SecondStatus(o) =>
                 /\ opRet'[o].outcome = "returned"
                 /\ opRet'[o].response.details = opRet[o].response.details
          /\ (opPc[o] = "init" /\ opPc'[o] # "init") =>
                 /\ opSnap[o].global_halt = FALSE
                 /\ opSnap[o].halted_pairs = <<>> /\ opSnap[o].flatten_pairs = <<>>
                 /\ opSnap[o].leverage_scale = One
                 /\ opResp'[o].details = _snapshot_to_details(opSnap[o])
                 /\ store'["global_halt"] = "0"
                 /\ store'["halted_pairs"] = JsonArray(<<>>)
                 /\ store'["flatten_pairs"] = JsonArray(<<>>)
                 /\ store'["leverage_scale"] = Dec(10000000)]_vars

\* handle_message of w sits inside the inference collaborator
Blocked(w) == wPc[w] = "inferring"

\* C24: heartbeat independence. While handle_message is blocked inside the
\* collaborator, however long, the loop of start() goes on writing the heartbeat
\* each time the interval has elapsed, and once stop() is called start() returns;
\* neither waits for the listener thread.
C24_HeartbeatIndependence ==
    \A w \in Workers :
        /\ (Blocked(w) /\ mainPc[w] \in {"loop", "body"} /\ stopPc[w] = "none") ~>
               (blockedBeats[w] = MaxBeats \/ ~Blocked(w) \/ stopPc[w] # "none")
        /\ (Blocked(w) /\ stopPc[w] # "none") ~>
               (~Blocked(w) \/ (mainPc[w] = "returned" /\ stopPc[w] = "done"))

\* C24 witness: the handler is still inside the collaborator, heartbeats were
\* written meanwhile, and stop() and start() have both returned
C24_Witness ==
    /\ Blocked("w1")
    /\ blockedBeats["w1"] = MaxBeats
    /\ stopPc["w1"] = "done"
    /\ mainPc["w1"] = "returned"

\* what a set_* call puts under its echo key for the text it stores in field f
EchoOf(f, text) ==
    CASE f = "global_halt" -> IF text = "1" THEN "True" ELSE "False"
      [] f \in {"halted_pairs", "flatten_pairs"} -> Join(text.val, <<",">>)
      [] OTHER -> text

\* the reason the handler of a command passes when the command names no actor
DefaultReason(name) ==
    CASE name = halt_global -> "manual_halt"
      [] name = resume_global -> "manual_resume"
      [] name = halt_pairs -> "manual_halt_pairs"
      [] name = flatten_pairs -> "manual_flatten"
      [] OTHER -> "manual_leverage"

\* the reason of the set_* call made in this step on field f
ReasonOfCall(f) ==
    IF RepoStepOn(f) THEN repoRet'.call.reason
    ELSE LET o == CHOOSE o \in Operators : ExecStepOn(o, f)
         IN  MapGet(opCmd'[o].metadata, "actor", DefaultReason(CanonicalName(opCmd'[o].command)))

MetadataKeys == {"updated_at", "reason", "source"}

\* C25: metadata is last-writer-wins with no merge. In every interleaving of set_*
\* calls the stored metadata has the keys updated_at, reason and source and one key
\* naming a flag field, whose value describes the text stored in that field; each
\* set_* call leaves its own reason and its own field's key, and nothing of the
\* metadata written before it.
C25_MetadataLastWriterWins ==
    /\ []("metadata" \in DOMAIN store =>
             /\ store["metadata"].json = "object"
             /\ \E f \in FlagFields :
                   /\ DOMAIN store["metadata"].val = MetadataKeys \cup {f}
                   /\ f \in DOMAIN store
                   /\ store["metadata"].val[f] = EchoOf(f, store[f]))
    /\ [][\A f \in FlagFields :
             SetCallOn(f) =>
                 /\ DOMAIN store'["metadata"].val = MetadataKeys \cup {f}
                 /\ store'["metadata"].val["reason"] = ReasonOfCall(f)
                 /\ store'["metadata"].val["source"] = "ml-assets-core"
                 /\ store'["metadata"].val["updated_at"] = Iso(clock)]_vars

\* C25 witness: a halt by the first operator and pairs by the second have both
\* landed; the metadata names halted_pairs and the second call's reason, and nothing
\* of the halt's metadata is left
C25_Witness ==
    /\ nExec = 2
    /\ DOMAIN store = {"global_halt", "halted_pairs", "metadata"}
    /\ store["global_halt"] = "1"
    /\ DOMAIN store["metadata"].val = MetadataKeys \cup {"halted_pairs"}
    /\ store["metadata"].val["reason"] = "manual_halt_pairs"

\* C26: heartbeat implies a working listener. Whenever the loop of a worker that was
\* not stopped goes through its heartbeat step, the worker's request listener is
\* alive, so that requests published to the channel still reach handle_message.
C26_HeartbeatImpliesListener ==
    [][\A w \in Workers :
          (mainPc[w] = "body" /\ mainPc'[w] = "loop" /\ running[w]) =>
              listener[w] = "alive"]_vars

\* C27: a stop is never lost. Whatever the order of stop() and start(), once stop()
\* has returned and start() was called, the loop of start() ends; and once both have
\* returned, no listener of the worker is left subscribed and no request is handed
\* to handle_message any more.
C27_StopNeverLost ==
    /\ [](\A w \in Workers :
             (stopPc[w] = "done" /\ mainPc[w] = "returned") => listener[w] # "alive")
    /\ [][\A w \in Workers :
             (stopPc[w] = "done" /\ mainPc[w] = "returned") => ~Invoked(w)]_vars
    /\ \A w \in Workers :
           (stopPc[w] = "done" /\ mainPc[w] # "none") ~> (mainPc[w] = "returned")

\* C29: no unaudited mutation. An execute that ends, by a return or by an exception,
\* with the flag store changed since it was entered has logged the audit entry
\* ops.<command> of its command.
C29_NoUnauditedMutation ==
    [][\A o \in Operators :
          (opPc[o] # "idle" /\ opPc'[o] = "idle" /\ store' # opPre[o].store) =>
              /\ Len(audit') = opPre[o].audit + 1
              /\ audit'[Len(audit')].event = OpsPrefix \o CanonicalName(opCmd[o].command)]_vars

\* the stored text of pair field f is a JSON array with at least one entry
PairsStored(st, f) == f \in DOMAIN st /\ st[f].json = "array" /\ st[f].val # <<>>

\* this step belongs to an execute of the command service
ServiceStep == \E o \in Operators : opPc'[o] # opPc[o] \/ opRet'[o] # opRet[o]

\* C30: pair sets cannot be cleared through the command service. Once halted_pairs
\* (flatten_pairs) is stored non-empty, no step of a command executed through
\* OpsService leaves it empty or absent; a resume_global changes neither pair field.
C30_PairsNeverCleared ==
    [][\A f \in {"halted_pairs", "flatten_pairs"} :
          /\ (ServiceStep /\ PairsStored(store, f)) => PairsStored(store', f)
          /\ (\E o \in Operators : ExecStepOn(o, "global_halt")) =>
                 FieldText(store', f) = FieldText(store, f)]_vars

\* C30 witness: halted_pairs was set, and a halt_pairs command with a blank list that
\* followed was rejected and left it in place
C30_Witness ==
    /\ opRet["op1"].seq = 2
    /\ opRet["op1"].command.command = halt_pairs
    /\ opRet["op1"].response.status = "error"
    /\ PairsStored(store, "halted_pairs")
====
